---- MODULE Spec2Model ----
(***************************************************************************)
(* A model of rmsh (src/main.c): the command lexer (lex_pop_token), the    *)
(* parser (lex_pop_proc, lex_pop_pipeline) and the job launcher            *)
(* (rmsh_launch_job, rmsh_child) as driven by rmsh_input.                  *)
(*                                                                         *)
(* An input line is a sequence of one-character strings.  A C string is    *)
(* modelled by the sequence of its bytes before the terminating NUL.       *)
(***************************************************************************)
EXTENDS Integers, Sequences, FiniteSets, TLC

(***************************************************************************)
(* Bounds of the model.                                                    *)
(***************************************************************************)
\* longest input line explored
MaxLen == 4

\* bytes an input line is made of: a letter, a digit, '=', a sign, the IFS
\* bytes space and newline, the metacharacters | & < > and both quote
\* characters
Alphabet == {"a", "2", "=", "+", " ", "|", "&", "<", ">", "'", "\"", "\n"}

Inputs == UNION {[1..n -> Alphabet] : n \in 0..MaxLen}

(***************************************************************************)
(* Character classes (ctype.h in the C locale) and the lexer's tables.     *)
(***************************************************************************)
IFS == {" ", "\t", "\n"}

METACHARS == {"|", "&", ";", "(", ")", "<", ">"}

QUOTES == {"'", "\""}

Digits == {"0", "1", "2", "3", "4", "5", "6", "7", "8", "9"}

Alphas == {"a", "b", "c", "x", "y", "z", "A", "B", "C", "X", "Y", "Z"}

Spaces == {" ", "\t", "\n", "\r", "\f"}

isalpha(c) == c \in Alphas

isdigit(c) == c \in Digits

isalnum(c) == isalpha(c) \/ isdigit(c)

isspace(c) == c \in Spaces

DigitVal(c) ==
    CASE c = "0" -> 0 [] c = "1" -> 1 [] c = "2" -> 2 [] c = "3" -> 3
      [] c = "4" -> 4 [] c = "5" -> 5 [] c = "6" -> 6 [] c = "7" -> 7
      [] c = "8" -> 8 [] c = "9" -> 9

LEXF_META == "META"

LEXF_PREMETA == "PREMETA"

LEXRT_PATH_IN == "PATH_IN"

LEXRT_PATH_OTRUNC == "PATH_OTRUNC"

LEXRT_PATH_OAPPEND == "PATH_OAPPEND"

LEXRT_PATH_INOUT == "PATH_INOUT"

LEXRT_FD_IN == "FD_IN"

LEXRT_FD_OUT == "FD_OUT"

LEXRT_PATH == {LEXRT_PATH_IN, LEXRT_PATH_OTRUNC, LEXRT_PATH_OAPPEND, LEXRT_PATH_INOUT}

LEXRT_FD == {LEXRT_FD_IN, LEXRT_FD_OUT}

STDIN_FILENO == 0

STDOUT_FILENO == 1

\* the messages lex_set_error is called with (the format, without arguments)
E_QUOTE == "unexpected EOF while looking for matching quote"

E_REDIR_OP == "unknown redirection op"

E_REDIR_EOF == "syntax error near unexpected EOF"

E_REDIR_TOK == "syntax error near unexpected token"

E_REDIR_FD == "invalid redirection fd"

E_META == "unexpected metacharacter"

E_PIPE_EOF == "syntax error: unexpected end of file"

(***************************************************************************)
(* Helper functions.                                                       *)
(***************************************************************************)
\* index of the first occurrence of byte ch in str at or after index i, 0 if none
RECURSIVE IndexFrom(_, _, _)
IndexFrom(str, i, ch) ==
    IF i > Len(str) THEN 0
    ELSE IF str[i] = ch THEN i
    ELSE IndexFrom(str, i + 1, ch)

\* strchr(str, ch): index of the first ch in str, 0 for NULL
strchr(str, ch) == IndexFrom(str, 1, ch)

\* number of newline bytes in str[i..j]
RECURSIVE CountNL(_, _, _)
CountNL(str, i, j) ==
    IF i > j THEN 0
    ELSE (IF str[i] = "\n" THEN 1 ELSE 0) + CountNL(str, i + 1, j)

\* first index at or after i whose byte is not white space
RECURSIVE SkipSpace(_, _)
SkipSpace(str, i) ==
    IF i <= Len(str) /\ isspace(str[i]) THEN SkipSpace(str, i + 1) ELSE i

\* first index at or after i whose byte is not a decimal digit
RECURSIVE SkipDigits(_, _)
SkipDigits(str, i) ==
    IF i <= Len(str) /\ isdigit(str[i]) THEN SkipDigits(str, i + 1) ELSE i

\* value of the decimal digits str[i..j], most significant first
RECURSIVE DecValue(_, _, _)
DecValue(str, i, j) ==
    IF i > j THEN 0
    ELSE DecValue(str, i, j - 1) * 10 + DigitVal(str[j])

\* strtol(str, &endp, 10): white space, an optional sign, decimal digits.
\* endp is the index of the first byte not converted (1 when no digit was
\* found).  Values stay far below LONG_MAX for the inputs explored, so
\* ERANGE does not occur.
strtol(str) ==
    LET i == SkipSpace(str, 1)
        neg == i <= Len(str) /\ str[i] = "-"
        d == IF i <= Len(str) /\ str[i] \in {"+", "-"} THEN i + 1 ELSE i
        e == SkipDigits(str, d)
        v == DecValue(str, d, e - 1)
    IN  IF e = d THEN [val |-> 0, endp |-> 1]
        ELSE [val |-> IF neg THEN 0 - v ELSE v, endp |-> e]

\* atol_exact(str, 10, &out): ret 0 iff strtol consumed the whole string
atol_exact(str) ==
    LET r == strtol(str)
    IN  [ret |-> IF r.endp <= Len(str) THEN 1 ELSE 0, out |-> r.val]

\* is_valid_name(str, length)
is_valid_name(str, length) ==
    /\ length > 0
    /\ isalpha(str[1]) \/ str[1] = "_"
    /\ \A i \in 2..length : isalnum(str[i]) \/ str[i] = "_"

(***************************************************************************)
(* Tokens (struct lex_tok).  s is the text before the terminating NUL;     *)
(* null says that s is the NULL pointer (the end-of-input token); term     *)
(* says that a NUL byte was stored after the text.  from and to are not    *)
(* fields of the struct: they record the span of the input the token was   *)
(* lexed from (to is the cursor when the token was returned).              *)
(***************************************************************************)
lex_tok(s, flags, done_ifs, from, to) ==
    [s |-> s, null |-> (~done_ifs /\ s = <<>>), flags |-> flags,
     term |-> done_ifs, from |-> from, to |-> to]

\* no token (a NULL struct lex_tok pointer)
NoTok == lex_tok(<<>>, {}, FALSE, 0, 0)

\* QuoteEnd closing at either quote character
RECURSIVE QuoteEnd_AnyQuote(_, _, _)
QuoteEnd_AnyQuote(inp, i, q) ==
    IF i > Len(inp) THEN 0
    ELSE IF inp[i] \in QUOTES THEN i
    ELSE QuoteEnd_AnyQuote(inp, i + 1, q)

\* QuoteEnd taking the end of the input for the closing quote
QuoteEnd_AtEnd(inp, i, q) ==
    IF IndexFrom(inp, i, q) # 0 THEN IndexFrom(inp, i, q) ELSE Len(inp) + 1

\* index of the closing quote: first q at or after i, 0 if there is none
QuoteEnd(inp, i, q) == IndexFrom(inp, i, q)

\* The for loop of lex_pop_token, from cursor c with the token text s built
\* so far.  meta: LEXF_META is set; from: where the token started (0: not yet).
RECURSIVE lex_scan(_, _, _, _, _, _, _)
lex_scan(inp, c, s, meta, done_ifs, ln, from) ==
    LET fin(flags, l) ==
            [ret |-> 0, tok |-> lex_tok(s, flags, done_ifs, from, c),
             cursor |-> c, line |-> l, error |-> ""]
        st == IF from = 0 THEN c ELSE from
    IN  IF c > Len(inp) THEN fin(IF meta THEN {LEXF_META} ELSE {}, ln)
        ELSE IF inp[c] \in METACHARS THEN
            IF ~meta /\ Len(s) > 0 THEN fin({LEXF_PREMETA}, ln)
            ELSE lex_scan(inp, c + 1, Append(s, inp[c]), TRUE, done_ifs, ln, st)
        ELSE IF meta THEN fin({LEXF_META}, ln)
        ELSE LET ln1 == IF inp[c] = "\n" THEN ln + 1 ELSE ln IN
            IF inp[c] \in IFS THEN
                IF ~done_ifs THEN lex_scan(inp, c + 1, s, meta, done_ifs, ln1, from)
                ELSE fin({}, ln1)
            ELSE IF inp[c] \in QUOTES THEN
                LET j == QuoteEnd(inp, c + 1, inp[c]) IN
                IF j = 0
                THEN [ret |-> 1, tok |-> NoTok,
                      cursor |-> Len(inp) + 1,
                      line |-> ln1 + CountNL(inp, c + 1, Len(inp)),
                      error |-> E_QUOTE]
                ELSE lex_scan(inp, j + 1, s \o SubSeq(inp, c + 1, j - 1), meta,
                              TRUE, ln1 + CountNL(inp, c + 1, j - 1), st)
            ELSE lex_scan(inp, c + 1, Append(s, inp[c]), meta, TRUE, ln1, st)

\* lex_pop_token: the cached token if there is one, else the next token of
\* the input.  Returns ret, the token, and the lexer state it leaves.
lex_pop_token(inp, th, c, ln) ==
    IF th # <<>>
    THEN [ret |-> 0, tok |-> Head(th), tok_head |-> Tail(th), cursor |-> c,
          line |-> ln, error |-> "", fresh |-> FALSE]
    ELSE LET r == lex_scan(inp, c, <<>>, FALSE, FALSE, ln, 0)
         IN  [ret |-> r.ret, tok |-> r.tok, tok_head |-> th, cursor |-> r.cursor,
              line |-> r.line, error |-> r.error, fresh |-> (r.ret = 0)]

\* a push-back list that is a queue: the token becomes the last of the list
lex_push_token_Queue(th, tok) == th \o <<tok>>

\* lex_push_token: the token becomes the head of the list
lex_push_token(th, tok) == <<tok>> \o th

\* What strcmp and %s read at tok->s.  A token whose text was not terminated
\* (lex_pop_token stores the NUL only when done_ifs is set) is read past the
\* end of its buffer: the bytes found there, up to the first zero byte, are
\* whatever the allocator left.
Garbage == {<<>>, <<"&">>}

CStrings(tok) == IF tok.term THEN {tok.s} ELSE {tok.s \o g : g \in Garbage}


(***************************************************************************)
(* Redirections, process descriptors and pipelines.                        *)
(***************************************************************************)
\* struct lex_redir.  source is a union: path is source.s (PATH types), fd
\* is source.fd (FD types).  op, pre and src are not fields of the struct:
\* they record the tokens the redirection was built from (the operator, the
\* premeta word taken as its target fd or NoTok, the word after the operator).
lex_redir(redir_fd, type, path, fd, op, pre, src) ==
    [redir_fd |-> redir_fd, type |-> type, path |-> path, fd |-> fd,
     op |-> op, pre |-> pre, src |-> src]

\* struct lex_proc after calloc.  argv and envp hold the strings only; the
\* terminating NULL entries are implicit.
NewProc == [envp |-> <<>>, argv |-> <<>>, redirs |-> <<>>]

\* the strcmp chain that maps an operator to a redirection type ("" if none matches)
RedirType(cs) ==
    CASE cs = <<"<">> -> LEXRT_PATH_IN
      [] cs = <<">">> -> LEXRT_PATH_OTRUNC
      [] cs = <<">", ">">> -> LEXRT_PATH_OAPPEND
      [] cs = <<"<", ">">> -> LEXRT_PATH_INOUT
      [] cs = <<"<", "&">> -> LEXRT_FD_IN
      [] cs = <<">", "&">> -> LEXRT_FD_OUT
      [] OTHER -> ""

\* the default target fd of a redirection operator
DefaultRedirFd(tok) == IF tok.s[1] = ">" THEN STDOUT_FILENO ELSE STDIN_FILENO

\* the value source.fd is given for an FD_IN/FD_OUT redirection whose word
\* parsed to the number parsed_fd: lex_pop_proc parses the word into the
\* local parsed_fd and never stores it, so the field keeps calloc's zero
SourceFd(parsed_fd) == 0

\* whether a premeta token is refused as a target fd
PremetaInvalid(premeta) ==
    LET a == atol_exact(premeta.s) IN a.ret # 0 \/ a.out < 0

\* AddWord with done_vars never set: a later NAME=VALUE word still goes to envp
AddWord_NoDoneVars(proc, done, arg) ==
    LET eq == strchr(arg, "=") IN
    IF ~done /\ eq # 0 /\ is_valid_name(arg, eq - 1)
    THEN [p |-> [proc EXCEPT !.envp = Append(@, arg)], done_vars |-> done]
    ELSE [p |-> [proc EXCEPT !.argv = Append(@, arg)], done_vars |-> done]

\* a plain word is added to envp (while done_vars is unset and it reads
\* NAME=...) or to argv; returns the descriptor and the new done_vars
AddWord(proc, done, arg) ==
    LET eq == strchr(arg, "=") IN
    IF ~done /\ eq # 0 /\ is_valid_name(arg, eq - 1)
    THEN [p |-> [proc EXCEPT !.envp = Append(@, arg)], done_vars |-> done]
    ELSE [p |-> [proc EXCEPT !.argv = Append(@, arg)], done_vars |-> TRUE]

(***************************************************************************)
(* State.                                                                  *)
(***************************************************************************)
VARIABLES
    input,      \* the line handed to rmsh_input
    cursor,     \* lex->cursor, as an index into input (Len(input)+1: the NUL)
    line,       \* lex->line
    tok_head,   \* lex->tok_head: the pushed-back tokens, head first
    error,      \* lex->error ("" while unset)
    pc,         \* where rmsh_input is: "proc", "pipe", "launch", "parent",
                \* "wait", or where it ended: "error", "panic", "failed",
                \* "crashed", "aborted", "done"
    p,          \* lex_pop_proc: the descriptor being built
    done_vars,  \* lex_pop_proc: done_vars
    premeta,    \* lex_pop_proc: premeta (<<>> for NULL, else <<token>>)
    procarr,    \* lex_pop_pipeline: the descriptors built so far
    pipeline,   \* rmsh_input: p, the pipeline returned (<<>> for NULL)
    toklog,     \* history: the tokens lexed from the input, in order
    job,        \* the processes forked for this input, in fork order
    shfds,      \* the shell's descriptor table: fd -> what it refers to
    infile,     \* rmsh_launch_job: infile (-1 once closed)
    outfile,    \* rmsh_launch_job: outfile
    iopipe,     \* rmsh_launch_job: iopipe[0], the read end kept for the next process
    sh_pgid,    \* sh->pgid: -1 unless the shell is interactive
    jpgid,      \* j->pgid
    tcpgrp,     \* the terminal's foreground process group
    tcattr,     \* the terminal's attributes: "saved" are those in sh->termios
    orphans,    \* children of earlier jobs that were never waited for
    nextpid,    \* the pid the next fork returns
    round,      \* how many lines the shell has been given
    history_buf,    \* history_buf: slot -> line, the NULL slots left out
    history_cur,    \* history_cur
    nadds,      \* how many lines history_add has been given
    prmt,       \* struct prompt: prmt_line as row -> bytes with the NULL rows
                \* left out, prmt_cur_row, prmt_cur_col, and the search
                \* overlay: whether prmt_srch_line is set, the first
                \* prmt_srch_query_sz bytes of its query, prmt_srch_line_sz
                \* and the size it was last allocated with
    prompt_ret, \* what prompt returned ("none" while it is reading keys)
    nkeys,      \* how many keys prompt has read
    lastkey,    \* the event the last key decoded to
    prevrow,    \* prmt_cur_row before the last key
    typed,      \* the text typed, while nothing but text has been typed
    query,      \* the text typed into the search query
    tch,        \* prompt: termchar, the decoder's struct __termchar
    fed,        \* the bytes prompt has given the decoder for the current key
    dret,       \* prompt: termchar_ret, what __termchar_input last returned
    child_pc,   \* where rmsh_child is after its redirections: "resolve",
                \* "putenv", "execv", "execd", "out" ("idle": no child)
    child_lex,  \* rmsh_child: p->lex, the descriptor of the command
    environ,    \* the child's environment: name -> value
    files,      \* the paths stat() finds
    exe_path    \* rmsh_child: exe_path (<<>> for NULL)

lexvars == <<input, cursor, line, tok_head, error>>

parsevars == <<pc, p, done_vars, premeta, procarr, pipeline, toklog>>

jobvars == <<job, shfds, infile, outfile, iopipe>>

shvars == <<sh_pgid, jpgid, tcpgrp, tcattr, orphans, nextpid, round>>

histvars == <<history_buf, history_cur, nadds>>

promptvars == <<prmt, prompt_ret, nkeys, lastkey, prevrow, typed, query>>

decvars == <<tch, fed, dret>>

childvars == <<child_pc, child_lex, environ, files, exe_path>>

editvars == <<histvars, promptvars, decvars, childvars>>

shellvars == <<lexvars, parsevars, jobvars, shvars>>

vars == <<lexvars, parsevars, jobvars, shvars, editvars>>

\* the while condition of lex_pop_proc
MoreInput == tok_head # <<>> \/ cursor <= Len(input)

\* the next lex_pop_token call
Pop == lex_pop_token(input, tok_head, cursor, line)

Logged(log, r) == IF r.fresh THEN Append(log, r.tok) ELSE log

\* a parse error: lex_pop_proc and lex_pop_pipeline free what they built and
\* return -1; rmsh_input prints the message, frees the lexer and returns -1
ParseError(msg, c, ln, log) ==
    /\ pc' = "error"
    /\ error' = msg
    /\ cursor' = c
    /\ line' = ln
    /\ tok_head' = <<>>
    /\ p' = NewProc
    /\ done_vars' = FALSE
    /\ premeta' = <<>>
    /\ procarr' = <<>>
    /\ toklog' = log
    /\ UNCHANGED <<input, pipeline, jobvars, shvars, editvars>>

\* a panic: the message is written and the shell exits
Panic(msg) ==
    /\ pc' = "panic"
    /\ error' = msg
    /\ UNCHANGED <<input, cursor, line, tok_head, p, done_vars, premeta,
                   procarr, pipeline, toklog, jobvars, shvars, editvars>>

\* tok->next != NULL in lex_push_token: the token is linked into the list
\* ahead of another one (next is set by a push, cleared by the pop)
tok_next_set(th, tok) == \E j \in 1..(Len(th) - 1) : th[j] = tok

\* lex_push_token(tok) on the list th, and then A
Pushing(th, tok, A) ==
    IF tok_next_set(th, tok) THEN Panic("tok->next != NULL") ELSE A

\* a premeta word that keeps its LEXF_PREMETA flag
premeta_strip_Keep(tok) == tok

\* premeta->flags &= ~LEXF_PREMETA
premeta_strip(tok) == [tok EXCEPT !.flags = @ \ {LEXF_PREMETA}]

\* lex_pop_proc goes on with its next iteration
ProcContinue(th, c, ln, proc, done, pm, log) ==
    /\ pc' = "proc"
    /\ tok_head' = th
    /\ cursor' = c
    /\ line' = ln
    /\ p' = proc
    /\ done_vars' = done
    /\ premeta' = pm
    /\ toklog' = log
    /\ UNCHANGED <<input, error, procarr, pipeline, jobvars, shvars, editvars>>


(***************************************************************************)
(* lex_pop_proc: one action per way an iteration of its while loop goes.   *)
(***************************************************************************)
\* lex_pop_token fails (an unterminated quote)
ProcPopFails ==
    LET r == Pop IN
        /\ pc = "proc" /\ MoreInput
        /\ r.ret # 0
        /\ ParseError(r.error, r.cursor, r.line, toklog)

\* a redirection operator after a premeta word that is no valid fd: both
\* tokens are pushed back, the word first out
ProcRedirReparse ==
    LET r == Pop IN
        /\ pc = "proc" /\ MoreInput
        /\ r.ret = 0
        /\ LEXF_META \in r.tok.flags
        /\ r.tok.s # <<>>
        /\ r.tok.s[1] \in {"<", ">"}
        /\ premeta # <<>>
        /\ PremetaInvalid(premeta[1])
        /\ Pushing(r.tok_head, r.tok,
             Pushing(lex_push_token(r.tok_head, r.tok), premeta[1],
               ProcContinue(lex_push_token(lex_push_token(r.tok_head, r.tok), premeta[1]),
                            r.cursor, r.line, p, done_vars, <<>>, Logged(toklog, r))))

\* a redirection operator: the target fd, the type, then the source word
ProcRedir ==
    LET r == Pop IN
        /\ pc = "proc" /\ MoreInput
        /\ r.ret = 0
        /\ LEXF_META \in r.tok.flags
        /\ r.tok.s # <<>>
        /\ r.tok.s[1] \in {"<", ">"}
        /\ premeta # <<>> => ~PremetaInvalid(premeta[1])
        /\ \E cs \in CStrings(r.tok) :
            LET parsed_fd == IF premeta # <<>> THEN atol_exact(premeta[1].s).out
                             ELSE DefaultRedirFd(r.tok)
                type == RedirType(cs)
                pre == IF premeta # <<>> THEN premeta[1] ELSE NoTok
                src == lex_pop_token(input, r.tok_head, r.cursor, r.line)
                log == Logged(Logged(toklog, r), src)
                a == atol_exact(src.tok.s)
                \* premeta after the fd was parsed from it: freed and NULL
                pm == IF premeta # <<>> THEN <<>> ELSE premeta
            IN  IF type = ""
                THEN ParseError(E_REDIR_OP, r.cursor, r.line, Logged(toklog, r))
                ELSE IF src.ret # 0
                THEN ParseError(src.error, src.cursor, src.line, Logged(toklog, r))
                ELSE IF src.tok.null
                THEN ParseError(E_REDIR_EOF, src.cursor, src.line, log)
                ELSE IF LEXF_META \in src.tok.flags
                THEN ParseError(E_REDIR_TOK, src.cursor, src.line, log)
                ELSE IF type \in LEXRT_FD /\ (a.ret # 0 \/ a.out < 0)
                THEN ParseError(E_REDIR_FD, src.cursor, src.line, log)
                ELSE IF pm # <<>>
                THEN Panic("unattended premeta token")
                ELSE ProcContinue(src.tok_head, src.cursor, src.line,
                        [p EXCEPT !.redirs = Append(@,
                            IF type \in LEXRT_FD
                            THEN lex_redir(parsed_fd, type, <<>>, SourceFd(a.out),
                                           r.tok, pre, src.tok)
                            ELSE lex_redir(parsed_fd, type, src.tok.s, 0,
                                           r.tok, pre, src.tok))],
                        done_vars, pm, log)

\* the descriptor is complete: lex_pop_proc returns it to lex_pop_pipeline
ProcReturn(th, c, ln, log) ==
    /\ pc' = "pipe"
    /\ tok_head' = th
    /\ cursor' = c
    /\ line' = ln
    /\ toklog' = log
    /\ UNCHANGED <<input, error, p, done_vars, premeta, procarr, pipeline,
                   jobvars, shvars, editvars>>

\* any other operator is pushed back; with a premeta word pending the word
\* is pushed back too and the loop goes on, else the loop ends
ProcOtherMeta ==
    LET r == Pop IN
        /\ pc = "proc" /\ MoreInput
        /\ r.ret = 0
        /\ LEXF_META \in r.tok.flags
        /\ r.tok.s = <<>> \/ r.tok.s[1] \notin {"<", ">"}
        /\ IF r.tok.s = <<>> \/ r.tok.null
           THEN Panic("metachar tok empty")
           ELSE Pushing(r.tok_head, r.tok,
                  IF premeta # <<>>
                  THEN Pushing(lex_push_token(r.tok_head, r.tok), premeta[1],
                         ProcContinue(lex_push_token(lex_push_token(r.tok_head, r.tok),
                                                     premeta[1]),
                                      r.cursor, r.line, p, done_vars, <<>>,
                                      Logged(toklog, r)))
                  ELSE ProcReturn(lex_push_token(r.tok_head, r.tok), r.cursor, r.line,
                                  Logged(toklog, r)))

\* a word that ended at a metacharacter is kept aside, its flag cleared
ProcPremeta ==
    LET r == Pop IN
        /\ pc = "proc" /\ MoreInput
        /\ r.ret = 0
        /\ LEXF_META \notin r.tok.flags
        /\ LEXF_PREMETA \in r.tok.flags
        /\ IF premeta # <<>>
           THEN Panic("premeta tokens encountered twice")
           ELSE ProcContinue(r.tok_head, r.cursor, r.line, p, done_vars,
                             <<premeta_strip(r.tok)>>,
                             Logged(toklog, r))

\* a plain token: with a premeta word pending the token is pushed back and
\* the premeta word is taken instead; the end-of-input token adds nothing
ProcWord ==
    LET r == Pop IN
        /\ pc = "proc" /\ MoreInput
        /\ r.ret = 0
        /\ r.tok.flags = {}
        /\ LET tok == IF premeta # <<>> THEN premeta[1] ELSE r.tok
               th == IF premeta # <<>> THEN lex_push_token(r.tok_head, r.tok)
                     ELSE r.tok_head
               w == AddWord(p, done_vars, tok.s)
           IN  IF premeta # <<>> /\ tok_next_set(r.tok_head, r.tok)
               THEN Panic("tok->next != NULL")
               ELSE IF tok.null
               THEN ProcContinue(th, r.cursor, r.line, p, done_vars, <<>>,
                                 Logged(toklog, r))
               ELSE ProcContinue(th, r.cursor, r.line, w.p, w.done_vars, <<>>,
                                 Logged(toklog, r))

\* the while condition fails: no cached token and the cursor at the NUL
ProcEnd ==
    /\ pc = "proc" /\ ~MoreInput
    /\ ProcReturn(tok_head, cursor, line, toklog)

(***************************************************************************)
(* lex_pop_pipeline: what follows a process descriptor.                    *)
(***************************************************************************)
\* the descriptor joins procarr; then end of input ends the pipeline, a `|'
\* followed by a further token starts the next process
PipeStep ==
    LET r == Pop IN
        /\ pc = "pipe"
        /\ LET arr == Append(procarr, p)
               log == Logged(toklog, r)
           IN  IF r.ret # 0
               THEN ParseError(r.error, r.cursor, r.line, toklog)
               ELSE IF r.tok.null
               THEN /\ pc' = "launch"
                    /\ pipeline' = arr
                    /\ procarr' = <<>>
                    /\ p' = NewProc
                    /\ done_vars' = FALSE
                    /\ premeta' = <<>>
                    /\ tok_head' = r.tok_head
                    /\ cursor' = r.cursor
                    /\ line' = r.line
                    /\ toklog' = log
                    /\ UNCHANGED <<input, error, jobvars, shvars, editvars>>
               ELSE IF LEXF_META \notin r.tok.flags
               THEN Panic("expected metacharacter")
               ELSE \E cs \in CStrings(r.tok) :
                    LET nxt == lex_pop_token(input, r.tok_head, r.cursor, r.line) IN
                    IF cs # <<"|">>
                    THEN ParseError(E_META, r.cursor, r.line, log)
                    ELSE IF nxt.ret # 0
                    THEN ParseError(nxt.error, nxt.cursor, nxt.line, log)
                    ELSE IF nxt.tok.null
                    THEN ParseError(E_PIPE_EOF, nxt.cursor, nxt.line, Logged(log, nxt))
                    ELSE Pushing(nxt.tok_head, nxt.tok,
                         /\ pc' = "proc"
                         /\ procarr' = arr
                         /\ p' = NewProc
                         /\ done_vars' = FALSE
                         /\ premeta' = <<>>
                         /\ tok_head' = lex_push_token(nxt.tok_head, nxt.tok)
                         /\ cursor' = nxt.cursor
                         /\ line' = nxt.line
                         /\ toklog' = Logged(log, nxt)
                         /\ UNCHANGED <<input, error, pipeline, jobvars, shvars, editvars>>)


(***************************************************************************)
(* The shell's processes and terminal.                                     *)
(***************************************************************************)
\* how many lines the interactive shell is given
MaxRounds == 2

\* the lines the shell as a whole is run on
Lines == {<<"a">>, <<"a", "|", "a">>, <<"a", ">", "a">>, <<">", "a">>, <<"'">>}

\* the lines the shell is run on with -c: those, and a pipeline that has a
\* process between two pipes
CmdLines == Lines \cup {<<"a", "|", "a", "|", "a">>}

\* the process group the shell is in when it starts, which it leads
ShellPgid == 1

SIGINT == 2

SIGSEGV == 11

HIST_MAX == 512

\* the codes a program exits with
ExitCodes == {0, 1}

\* the signals a program is killed by
TermSignals == {SIGINT}

(***************************************************************************)
(* Descriptor tables.  A table maps each open fd to what it refers to:     *)
(* <<"tty", n>> (what the shell had on fd n), <<"r", i>> and <<"w", i>>    *)
(* (the ends of the pipe made for process i), <<"file", path, type>>.      *)
(***************************************************************************)
\* the lowest fd at or above lo that is not open
LowestFree(fds, lo) ==
    CHOOSE n \in lo..(lo + Cardinality(DOMAIN fds)) :
        /\ n \notin DOMAIN fds
        /\ \A m \in lo..(n - 1) : m \in DOMAIN fds

\* a close that leaves the fd open
Close_Leak(fds, fd) == fds

\* close(fd)
Close(fds, fd) == [x \in DOMAIN fds \ {fd} |-> fds[x]]

\* fd now refers to what src refers to (dup2, F_DUPFD onto a free fd)
DupOnto(fds, src, fd) == [x \in DOMAIN fds \cup {fd} |-> IF x = fd THEN fds[src] ELSE fds[x]]

\* open(path, ...) on the lowest free fd
Open(fds, path, type) ==
    [x \in DOMAIN fds \cup {LowestFree(fds, 0)} |->
        IF x \in DOMAIN fds THEN fds[x] ELSE <<"file", path, type>>]

\* the table the shell starts with
ShellFds == [x \in {0, 1, 2} |-> <<"tty", x>>]

(***************************************************************************)
(* rmsh_child, from the dup2 of infile/outfile on.                         *)
(***************************************************************************)
\* a child that leaves its standard fds as it got them
InstallStd_Keep(fds, file, std) == fds

\* the dup2/close pair that installs a pipe end on a standard fd
InstallStd(fds, file, std) ==
    IF file # std THEN Close(DupOnto(fds, file, std), file) ELSE fds

\* a redirection loop that walks the list from its end: the k-th step
\* applies the k-th redirection from the last
RECURSIVE DoRedirs_LastFirst(_, _, _, _, _)
DoRedirs_LastFirst(redirs, k, fds, dups, openfail) ==
    IF k > Len(redirs) THEN [ok |-> TRUE, fds |-> fds, dups |-> dups, diag |-> ""]
    ELSE LET r == redirs[Len(redirs) + 1 - k]
             isPath == r.type \in LEXRT_PATH
             tmpfd == IF isPath THEN LowestFree(fds, 0) ELSE r.fd
             fds1 == IF isPath THEN Open(fds, r.path, r.type) ELSE fds
             fds2 == Close(fds1, r.redir_fd)
             fds3 == DupOnto(fds2, tmpfd, r.redir_fd)
             fds4 == IF isPath THEN Close(fds3, tmpfd) ELSE fds3
         IN  IF isPath /\ openfail = k
             THEN [ok |-> FALSE, fds |-> fds, dups |-> dups, diag |-> "open"]
             ELSE IF tmpfd = r.redir_fd
             THEN DoRedirs_LastFirst(redirs, k + 1, fds1, dups, openfail)
             ELSE IF tmpfd \notin DOMAIN fds2
             THEN [ok |-> FALSE, fds |-> fds2, dups |-> dups, diag |-> "dup"]
             ELSE DoRedirs_LastFirst(redirs, k + 1, fds4,
                                     Append(dups, <<tmpfd, r.redir_fd>>), openfail)

\* The redirection loop from redirs[k] on.  openfail is the index of the
\* redirection whose open() fails (0: none fails).  dups logs every
\* F_DUPFD performed as <<source fd, target fd>>.
RECURSIVE DoRedirs(_, _, _, _, _)
DoRedirs(redirs, k, fds, dups, openfail) ==
    IF k > Len(redirs) THEN [ok |-> TRUE, fds |-> fds, dups |-> dups, diag |-> ""]
    ELSE LET r == redirs[k]
             isPath == r.type \in LEXRT_PATH
             tmpfd == IF isPath THEN LowestFree(fds, 0) ELSE r.fd
             fds1 == IF isPath THEN Open(fds, r.path, r.type) ELSE fds
             fds2 == Close(fds1, r.redir_fd)
             fds3 == DupOnto(fds2, tmpfd, r.redir_fd)
             fds4 == IF isPath THEN Close(fds3, tmpfd) ELSE fds3
         IN  IF isPath /\ openfail = k
             THEN [ok |-> FALSE, fds |-> fds, dups |-> dups, diag |-> "open"]
             ELSE IF tmpfd = r.redir_fd
             THEN DoRedirs(redirs, k + 1, fds1, dups, openfail)
             ELSE IF tmpfd \notin DOMAIN fds2
             THEN [ok |-> FALSE, fds |-> fds2, dups |-> dups, diag |-> "dup"]
             ELSE DoRedirs(redirs, k + 1, fds4, Append(dups, <<tmpfd, r.redir_fd>>),
                           openfail)

\* What the resolution of argv[0] does.  With an empty argv, argv[0] is the
\* terminating NULL and strchr reads through it: the child is killed by
\* SIGSEGV or, where that read does not fault, goes on with whatever bytes
\* it found.  Otherwise the path is looked up (found says whether the
\* command exists) and handed to execv (execok says whether execv succeeds).
Resolve(argv, found, execok) ==
    IF argv = <<>> THEN {[st |-> "signaled", status |-> 128 + 11, diag |-> "", nullread |-> TRUE],
                         [st |-> "exited", status |-> 1, diag |-> "exec", nullread |-> TRUE]}
    ELSE IF strchr(argv[1], "/") = 0 /\ ~found
    THEN {[st |-> "exited", status |-> 1, diag |-> "command not found", nullread |-> FALSE]}
    ELSE IF ~execok
    THEN {[st |-> "exited", status |-> 1, diag |-> "exec", nullread |-> FALSE]}
    ELSE {[st |-> "exec", status |-> -1, diag |-> "", nullread |-> FALSE]}

\* the system calls of rmsh_child before the redirection loop; one of them
\* may be refused by the system ("": none is)
SysFails == {"", "setpgid", "tcsetpgrp", "sigaction", "dup2", "close"}

\* the group a child asks for when every child makes a group of its own
ChildPgid_Own(pgid, pid) == pid

\* the group a child asks for: pgid 0 stands for its own pid
ChildPgid(pgid, pid) == IF pgid = 0 THEN pid ELSE pgid

\* The pgid block of rmsh_child once it is known whether setpgid put the
\* process into the group (joined) and whether tcsetpgrp is called (take);
\* calls are the system calls made, in order
child_pgid_block(c, tc, pgid, joined, grp, by, take, sysfail) ==
    IF c.pgid = -1
    THEN [ok |-> TRUE, pgrp |-> c.pgrp, pgby |-> c.pgby, tc |-> tc, diag |-> "",
          calls |-> <<>>]
    ELSE IF ~joined /\ pgid # c.pgrp
    THEN [ok |-> FALSE, pgrp |-> c.pgrp, pgby |-> c.pgby, tc |-> tc,
          diag |-> "setpgid", calls |-> <<"setpgid">>]
    ELSE IF take /\ sysfail = "tcsetpgrp"
    THEN [ok |-> FALSE, pgrp |-> grp, pgby |-> by, tc |-> tc, diag |-> "tcsetpgrp",
          calls |-> <<"setpgid", "tcsetpgrp">>]
    ELSE [ok |-> TRUE, pgrp |-> grp, pgby |-> by, tc |-> IF take THEN pgid ELSE tc,
          diag |-> "",
          calls |-> IF take THEN <<"setpgid", "tcsetpgrp">> ELSE <<"setpgid">>]

\* the pgid block, were every child to give the terminal to its group
child_pgid_AnyInput(c, tc, exists, sysfail) ==
    LET pgid == IF c.pgid = 0 THEN c.pid ELSE c.pgid
        joined == sysfail # "setpgid" /\ (pgid = c.pid \/ exists)
        grp == IF joined THEN pgid ELSE c.pgrp
        by == IF joined /\ c.pgrp # pgid THEN "child" ELSE c.pgby
    IN  child_pgid_block(c, tc, pgid, joined, grp, by, pgid # tc, sysfail)

\* The pgid block of rmsh_child for the process record c.  tc is the
\* terminal's foreground group, exists says whether the group asked for has
\* a member.  A setpgid that fails is let through when the process is in
\* the group already (the parent's call came first).
child_pgid(c, tc, exists, sysfail) ==
    LET pgid == ChildPgid(c.pgid, c.pid)
        joined == sysfail # "setpgid" /\ (pgid = c.pid \/ exists)
        grp == IF joined THEN pgid ELSE c.pgrp
        by == IF joined /\ c.pgrp # pgid THEN "child" ELSE c.pgby
        take == c.infile = STDIN_FILENO /\ pgid # tc
    IN  child_pgid_block(c, tc, pgid, joined, grp, by, take, sysfail)

\* the signals whose handling rmsh_child sets back to the default, in the
\* order of its sigaction calls
JobControlSignals ==
    <<"SIGINT", "SIGQUIT", "SIGTSTP", "SIGTTIN", "SIGTTOU", "SIGCHLD">>

\* rmsh_child for the process record c: the outcomes it can have, each with
\* the terminal's foreground group it leaves
rmsh_child(c, tc, exists, sysfail, openfail, found, execok) ==
    LET g == child_pgid(c, tc, exists, sysfail)
        c1 == [c EXCEPT !.pgrp = g.pgrp, !.pgby = g.pgby, !.calls = g.calls]
        piped == c.infile # STDIN_FILENO \/ c.outfile # STDOUT_FILENO
        fds0 == InstallStd(InstallStd(c.fds, c.infile, STDIN_FILENO),
                           c.outfile, STDOUT_FILENO)
        c2 == [c1 EXCEPT !.std = <<fds0[STDIN_FILENO], fds0[STDOUT_FILENO]>>,
                         !.calls = g.calls \o JobControlSignals]
        rd == DoRedirs(c.lex.redirs, 1, fds0, <<>>, openfail)
        exit1(r, d) == [r EXCEPT !.st = "exited", !.status = 1, !.diag = d]
    IN  IF ~g.ok
        THEN {[proc |-> exit1(c1, g.diag), tc |-> g.tc]}
        ELSE IF sysfail = "sigaction"
        THEN {[proc |-> exit1(c1, "sigaction"), tc |-> g.tc]}
        ELSE IF piped /\ sysfail \in {"dup2", "close"}
        THEN {[proc |-> exit1(c1, sysfail), tc |-> g.tc]}
        ELSE IF ~rd.ok
        THEN {[proc |-> [exit1(c2, rd.diag) EXCEPT !.fds = rd.fds, !.dups = rd.dups],
               tc |-> g.tc]}
        ELSE {[proc |-> [c2 EXCEPT !.st = o.st, !.status = o.status, !.diag = o.diag,
                                   !.nullread = o.nullread, !.fds = rd.fds,
                                   !.dups = rd.dups, !.execd = (o.st = "exec"),
                                   !.calls = IF o.st = "exec" \/ o.diag = "exec"
                                             THEN Append(@, "execv") ELSE @,
                                   !.termsig = IF o.st = "signaled" THEN SIGSEGV ELSE 0],
               tc |-> g.tc]
                 : o \in Resolve(c.lex.argv, found, execok)}

\* struct rmsh_proc together with the state of the process forked for it:
\* pgid is the group it was told to join, pgrp the group it is in, pgby who
\* put it there first, std what its fds 0 and 1 referred to after the
\* dup2/close pairs, execd whether execv succeeded, termsig the signal that
\* killed it, calls the calls of rmsh_child that place it in its group, give
\* the terminal, restore a signal's default handling and exec, in order
rmsh_proc(lp, pid, in, out, pgid, fds) ==
    [lex |-> lp, pid |-> pid, infile |-> in, outfile |-> out, fds |-> fds,
     st |-> "forked", status |-> -1, diag |-> "", nullread |-> FALSE, dups |-> <<>>,
     pgid |-> pgid, pgrp |-> ShellPgid, pgby |-> "", std |-> <<>>, execd |-> FALSE,
     termsig |-> 0, return_status |-> -1, return_signal |-> 0, calls |-> <<>>]

\* a process that has terminated
Terminated(c) == c.st \in {"exited", "signaled"}

\* the children of the shell that wait() has not returned yet
Unreaped(procs) == SelectSeq(procs, LAMBDA c : c.return_status = -1)

\* some child of the shell is a member of the group g
GroupExists(g) ==
    \/ \E i \in 1..Len(job) : job[i].return_status = -1 /\ job[i].pgrp = g
    \/ \E k \in 1..Len(orphans) : orphans[k].pgrp = g

(***************************************************************************)
(* rmsh_launch_job: two actions per iteration of its for loop, the child   *)
(* being able to run between them.                                         *)
(***************************************************************************)
\* iteration i up to the fork: the pipe (unless i is the last) and the fork
LaunchProc ==
    /\ pc = "launch"
    /\ LET i == Len(job) + 1
           last == i = Len(pipeline)
           rd == LowestFree(shfds, 0)
           wr == LowestFree(shfds, rd + 1)
           piped == IF last THEN shfds
                    ELSE [x \in DOMAIN shfds \cup {rd, wr} |->
                            IF x = rd THEN <<"r", i>>
                            ELSE IF x = wr THEN <<"w", i>> ELSE shfds[x]]
           out == IF last THEN STDOUT_FILENO ELSE wr
       IN  /\ job' = Append(job, rmsh_proc(pipeline[i], nextpid, infile, out, jpgid, piped))
           /\ shfds' = piped
           /\ outfile' = out
           /\ iopipe' = IF last THEN -1 ELSE rd
    /\ nextpid' = nextpid + 1
    /\ pc' = "parent"
    /\ UNCHANGED <<lexvars, p, done_vars, premeta, procarr, pipeline, toklog, infile,
                   sh_pgid, jpgid, tcpgrp, tcattr, orphans, round, editvars>>

\* iteration i after the fork: the parent's setpgid when interactive, which
\* the system refuses once the child has exec'd, and the closing of the ends
\* the parent no longer needs
LaunchParent ==
    /\ pc = "parent"
    /\ LET i == Len(job)
           last == i = Len(pipeline)
           g == IF jpgid = 0 THEN job[i].pid ELSE jpgid
           moved == sh_pgid # -1 /\ ~job[i].execd /\ job[i].pgrp # g
           closed1 == IF infile # STDIN_FILENO /\ infile # -1
                      THEN Close(shfds, infile) ELSE shfds
           closed2 == IF outfile # STDOUT_FILENO /\ outfile # -1
                      THEN Close(closed1, outfile) ELSE closed1
       IN  /\ jpgid' = IF sh_pgid # -1 THEN g ELSE jpgid
           /\ job' = IF moved
                     THEN [job EXCEPT ![i].pgrp = g, ![i].pgby = "parent"]
                     ELSE job
           /\ shfds' = closed2
           /\ infile' = iopipe
           /\ outfile' = IF outfile # STDOUT_FILENO THEN -1 ELSE outfile
           /\ iopipe' = -1
           /\ pc' = IF last THEN "wait" ELSE "launch"
    /\ UNCHANGED <<lexvars, p, done_vars, premeta, procarr, pipeline, toklog,
                   sh_pgid, tcpgrp, tcattr, orphans, nextpid, round, editvars>>

\* pipe() fails in iteration i: rmsh_launch_job closes infile and returns
\* -1, and rmsh_input returns without waiting for the children forked
LaunchPipeFails ==
    /\ pc = "launch"
    /\ Len(job) + 1 < Len(pipeline)
    /\ shfds' = IF infile # STDIN_FILENO /\ infile # -1 THEN Close(shfds, infile) ELSE shfds
    /\ infile' = infile
    /\ pc' = "failed"
    /\ UNCHANGED <<lexvars, p, done_vars, premeta, procarr, pipeline, toklog, job,
                   outfile, iopipe, shvars, editvars>>

\* fork() fails in iteration i: the ends of the pipe just made and infile
\* are closed and rmsh_launch_job returns -1.  The descriptor of process i
\* is freed by rmsh_launch_proc and again by free_lex_pipeline: the shell
\* goes on or is killed by the allocator
LaunchForkFails ==
    /\ pc = "launch"
    /\ LET closed == IF infile # STDIN_FILENO /\ infile # -1
                     THEN Close(shfds, infile) ELSE shfds
       IN  shfds' = closed
    /\ infile' = infile
    /\ pc' \in {"failed", "crashed"}
    /\ UNCHANGED <<lexvars, p, done_vars, premeta, procarr, pipeline, toklog, job,
                   outfile, iopipe, shvars, editvars>>

(***************************************************************************)
(* The children.                                                           *)
(***************************************************************************)
\* the child forked for job[i] runs rmsh_child to its exec or to its exit
ChildRun(i) ==
    /\ job[i].st = "forked"
    /\ \E sysfail \in SysFails, openfail \in 0..Len(job[i].lex.redirs),
          found \in BOOLEAN, execok \in BOOLEAN :
        \E o \in rmsh_child(job[i], tcpgrp,
                            GroupExists(ChildPgid(job[i].pgid, job[i].pid)),
                            sysfail, openfail, found, execok) :
            /\ job' = [job EXCEPT ![i] = o.proc]
            /\ tcpgrp' = o.tc
    /\ UNCHANGED <<lexvars, parsevars, shfds, infile, outfile, iopipe,
                   sh_pgid, jpgid, tcattr, orphans, nextpid, round, editvars>>

\* how a program that was exec'd ends: it exits with a code or is killed by
\* a signal
Endings(c) ==
    {[c EXCEPT !.st = "exited", !.status = n] : n \in ExitCodes}
    \cup {[c EXCEPT !.st = "signaled", !.status = 128 + s, !.termsig = s] : s \in TermSignals}

\* the attributes a process can leave the terminal with: a process of the
\* foreground group may change them
Attrs(c) == IF c.pgrp = tcpgrp THEN {tcattr, "changed"} ELSE {tcattr}

\* the program exec'd for job[i] ends
ProgramEnds(i) ==
    /\ job[i].st = "exec"
    /\ \E c \in Endings(job[i]) : job' = [job EXCEPT ![i] = c]
    /\ tcattr' \in Attrs(job[i])
    /\ UNCHANGED <<lexvars, parsevars, shfds, infile, outfile, iopipe,
                   sh_pgid, jpgid, tcpgrp, orphans, nextpid, round, editvars>>

\* a child of an earlier job runs rmsh_child
OrphanRun(k) ==
    /\ orphans[k].st = "forked"
    /\ \E sysfail \in SysFails, openfail \in 0..Len(orphans[k].lex.redirs),
          found \in BOOLEAN, execok \in BOOLEAN :
        \E o \in rmsh_child(orphans[k], tcpgrp,
                            GroupExists(ChildPgid(orphans[k].pgid, orphans[k].pid)),
                            sysfail, openfail, found, execok) :
            /\ orphans' = [orphans EXCEPT ![k] = o.proc]
            /\ tcpgrp' = o.tc
    /\ UNCHANGED <<lexvars, parsevars, jobvars, sh_pgid, jpgid, tcattr, nextpid,
                   round, editvars>>

\* the program exec'd for a child of an earlier job ends
OrphanEnds(k) ==
    /\ orphans[k].st = "exec"
    /\ \E c \in Endings(orphans[k]) : orphans' = [orphans EXCEPT ![k] = c]
    /\ tcattr' \in Attrs(orphans[k])
    /\ UNCHANGED <<lexvars, parsevars, jobvars, sh_pgid, jpgid, tcpgrp, nextpid,
                   round, editvars>>

(***************************************************************************)
(* wait_rmsh_job: one action per iteration of its while loop, and the rest *)
(* of rmsh_input.                                                          *)
(***************************************************************************)
\* the process of the job that a wait() returning the first unrecorded
\* process would be matched to
find_proc_FirstUncompleted(procs, pid) ==
    IF \E i \in 1..Len(procs) : procs[i].return_status = -1
    THEN CHOOSE i \in 1..Len(procs) :
            /\ procs[i].return_status = -1
            /\ \A m \in 1..(i - 1) : procs[m].return_status # -1
    ELSE 0

\* the process of the job with the pid that wait() returned (0: none)
find_proc(procs, pid) ==
    IF \E i \in 1..Len(procs) : procs[i].pid = pid
    THEN CHOOSE i \in 1..Len(procs) : procs[i].pid = pid
    ELSE 0

\* the status saved for a process that wait() returned
save_status(c, w) ==
    IF w.st = "exited"
    THEN [c EXCEPT !.return_status = w.status]
    ELSE [c EXCEPT !.return_status = 128 + w.termsig, !.return_signal = w.termsig]

\* the ids of the processes of the job still counted as uncompleted
Uncompleted == {i \in 1..Len(job) : job[i].return_status = -1}

\* wait() returns a terminated process of the job: its status is saved
WaitReap(i) ==
    /\ pc = "wait"
    /\ Uncompleted # {}
    /\ Terminated(job[i]) /\ job[i].return_status = -1
    /\ LET f == find_proc(job, job[i].pid)
       IN  job' = [job EXCEPT ![f] = save_status(job[f], job[i])]
    /\ UNCHANGED <<lexvars, parsevars, shfds, infile, outfile, iopipe, shvars, editvars>>

\* wait() returns a terminated child of an earlier job: "unknown pid", and
\* rmsh_input returns without putting the shell back in the foreground
WaitUnknownPid(k) ==
    /\ pc = "wait"
    /\ Uncompleted # {}
    /\ Terminated(orphans[k])
    /\ find_proc(job, orphans[k].pid) = 0
    /\ orphans' = SubSeq(orphans, 1, k - 1) \o SubSeq(orphans, k + 1, Len(orphans))
    /\ pc' = "aborted"
    /\ UNCHANGED <<lexvars, p, done_vars, premeta, procarr, pipeline, toklog, jobvars,
                   sh_pgid, jpgid, tcpgrp, tcattr, nextpid, round, editvars>>

\* every process has a status: wait_rmsh_job returns 0 and rmsh_input, when
\* interactive, puts the shell back in the foreground and restores the
\* terminal attributes
WaitReturn ==
    /\ pc = "wait"
    /\ Uncompleted = {}
    /\ tcpgrp' = IF sh_pgid # -1 THEN sh_pgid ELSE tcpgrp
    /\ tcattr' = IF sh_pgid # -1 THEN "saved" ELSE tcattr
    /\ pc' = "done"
    /\ UNCHANGED <<lexvars, p, done_vars, premeta, procarr, pipeline, toklog, jobvars,
                   sh_pgid, jpgid, orphans, nextpid, round, editvars>>

(***************************************************************************)
(* history_add and history_get.                                            *)
(***************************************************************************)
\* history_buf[slot] == NULL, and the NULL a function returns
NULL == <<-1>>

\* how many lines the history is given
MaxAdds == 520

\* the line that is added as number j (from 0): j in three decimal digits
LineNo(j) ==
    <<48 + ((j \div 100) % 10), 48 + ((j \div 10) % 10), 48 + (j % 10)>>

\* history_add(ln) on the ring buf with cursor cur
history_add(buf, cur, ln) ==
    [buf |-> [s \in DOMAIN buf \cup {cur} |-> IF s = cur THEN ln ELSE buf[s]],
     cur |-> IF cur + 1 >= HIST_MAX THEN 0 ELSE cur + 1]

\* the slot of history_get(idx), were the ring not to wrap
history_slot_NoWrap(cur, idx) == cur - (idx + 1)

\* the slot history_get(idx) reads
history_slot(cur, idx) ==
    IF idx + 1 <= cur THEN cur - (idx + 1) ELSE HIST_MAX - ((idx + 1) - cur)

\* history_get(idx): the line added idx adds ago, NULL if there is none
history_get(buf, cur, idx) ==
    IF idx >= HIST_MAX THEN NULL
    ELSE IF history_slot(cur, idx) \in DOMAIN buf
         THEN buf[history_slot(cur, idx)]
         ELSE NULL

(***************************************************************************)
(* UTF-8.  A string is the sequence of its bytes, without the NUL.         *)
(***************************************************************************)
\* utf8_size(c): the size of the code point that starts with byte c, 0 for a
\* continuation byte, -1 for a byte that starts nothing
utf8_size(c) ==
    IF c <= 127 THEN 1
    ELSE IF c <= 191 THEN 0
    ELSE IF c <= 223 THEN 2
    ELSE IF c <= 239 THEN 3
    ELSE IF c <= 247 THEN 4
    ELSE -1

\* the scan of utf8_rsize, from the byte at index curr (from 1) downwards
RECURSIVE utf8_rsize_from(_, _, _)
utf8_rsize_from(s, len, curr) ==
    IF curr < 1 THEN 0
    ELSE IF utf8_size(s[curr]) # 0 THEN len - (curr - 1)
    ELSE utf8_rsize_from(s, len, curr - 1)

\* utf8_rsize(s, len) with every code point taken for one byte
utf8_rsize_OneByte(s, len) == IF len = 0 THEN 0 ELSE 1

\* utf8_rsize(s, len): the size of the code point that ends at byte len of s
utf8_rsize(s, len) == utf8_rsize_from(s, len, len)

\* the loop of utf8_strnlen, at the byte at index i (from 1) with n bytes
\* left and len code points counted; the byte after the last one is the NUL
RECURSIVE utf8_strnlen_from(_, _, _, _)
utf8_strnlen_from(s, i, n, len) ==
    IF n = 0 \/ i > Len(s) THEN len
    ELSE LET u8sz == utf8_size(s[i])
         IN  IF u8sz < 1 THEN -1
             ELSE IF u8sz > n THEN -1
             ELSE IF \E k \in 1..(u8sz - 1) :
                        i + k > Len(s) \/ utf8_size(s[i + k]) # 0
                  THEN -1
                  ELSE utf8_strnlen_from(s, i + u8sz, n - u8sz, len + 1)

\* utf8_strnlen(c, n): how many code points the first n bytes of c are, -1
\* if they are not well-formed; c may be NULL when n is 0
utf8_strnlen(c, n) ==
    IF n = 0 THEN 0 ELSE utf8_strnlen_from(c, 1, n, 0)

\* strlen(s ?: "")
strlen0(s) == IF s = NULL THEN 0 ELSE Len(s)

(***************************************************************************)
(* __termchar_input: the key decoder.  The state is the struct __termchar: *)
(* tch_type, the bytes stored so far, tch_text.sz and tch_ctrl.value.      *)
(***************************************************************************)
CTRL_A == 1
CTRL_B == 2
CTRL_C == 3
CTRL_D == 4
CTRL_E == 5
CTRL_F == 6
CTRL_L == 12
CTRL_R == 18
BACKSPACE == 127
\* '\e', '\n' and '\t'
ESC == 27
NL == 10
TAB == 9

\* the characters an escape sequence is made of: [ O ~ A B C D F H
Ch == [lb |-> 91, O |-> 79, tilde |-> 126, A |-> 65, B |-> 66, C |-> 67,
       D |-> 68, F |-> 70, H |-> 72]

\* '0' + d
Digit(d) == 48 + d

\* the events the single bytes decode to
CtrlByte ==
    (CTRL_A :> "HOME") @@ (CTRL_B :> "BCKWARD") @@ (CTRL_C :> "LINEKILL") @@
    (CTRL_D :> "EXIT") @@ (CTRL_E :> "END") @@ (CTRL_F :> "FORWARD") @@
    (CTRL_R :> "SEARCH") @@ (CTRL_L :> "CLEAR") @@ (NL :> "ENTER") @@
    (TAB :> "TAB") @@ (BACKSPACE :> "BACKSPACE")

\* the events ESC [ and one letter decode to
CsiLetter ==
    (Ch.A :> "UP") @@ (Ch.B :> "DN") @@ (Ch.C :> "FORWARD") @@
    (Ch.D :> "BCKWARD") @@ (Ch.H :> "HOME") @@ (Ch.F :> "END")

\* the events ESC [ digit ~ decode to, were every digit HOME
CsiDigit_AllHome == [c \in {Digit(d) : d \in 1..8} |-> "HOME"]

\* the events ESC [ digit ~ decode to
CsiDigit ==
    (Digit(1) :> "HOME") @@ (Digit(3) :> "DEL") @@ (Digit(4) :> "END") @@
    (Digit(5) :> "PGUP") @@ (Digit(6) :> "PGDN") @@ (Digit(7) :> "HOME") @@
    (Digit(8) :> "END")

\* iscntrl(c) in the C locale
iscntrl(c) == c < 32 \/ c = 127

\* the size of tch_text.data
TextCap == 5

\* the struct after memset(&termchar, 0, sizeof(termchar))
termchar0 == [tch_type |-> "UNK", data |-> <<>>, sz |-> 0, value |-> "UNK"]

\* __termchar_input(termchar, c): what it returns (1 done, 0 read more, -1
\* failure, -2 for a store past the end of tch_text.data) and the struct
termchar_input(tc, c) ==
    IF tc.tch_type = "UNK" THEN
        IF c = ESC
        THEN [ret |-> 0, tc |-> [tc EXCEPT !.tch_type = "CTRL"]]
        ELSE IF c \in DOMAIN CtrlByte
        THEN [ret |-> 1,
              tc |-> [tc EXCEPT !.tch_type = "CTRL", !.value = CtrlByte[c]]]
        ELSE IF iscntrl(c)
        THEN [ret |-> -1, tc |-> tc]
        ELSE LET sz == utf8_size(c) % 256  \* stored in a uint8_t
                 t  == [tc EXCEPT !.tch_type = "TEXT", !.data = <<c>>,
                                  !.sz = sz]
             IN  [ret |-> IF sz < 1 THEN -1 ELSE IF sz = 1 THEN 1 ELSE 0,
                  tc |-> t]
    ELSE IF tc.tch_type = "TEXT" THEN
        IF Len(tc.data) >= tc.sz THEN [ret |-> -1, tc |-> tc]
        ELSE IF Len(tc.data) >= TextCap THEN [ret |-> -2, tc |-> tc]
        ELSE [ret |-> IF Len(tc.data) + 1 = tc.sz THEN 1 ELSE 0,
              tc |-> [tc EXCEPT !.data = Append(tc.data, c)]]
    ELSE IF Len(tc.data) = 0 THEN
        IF c # Ch.lb /\ c # Ch.O
        THEN [ret |-> -1, tc |-> tc]
        ELSE [ret |-> 0, tc |-> [tc EXCEPT !.data = <<c>>]]
    ELSE IF tc.data[1] = Ch.O THEN
        IF Len(tc.data) # 1 THEN [ret |-> -1, tc |-> tc]
        ELSE IF c = Ch.H THEN [ret |-> 1, tc |-> [tc EXCEPT !.value = "HOME"]]
        ELSE IF c = Ch.F THEN [ret |-> 1, tc |-> [tc EXCEPT !.value = "END"]]
        ELSE [ret |-> -1, tc |-> tc]
    ELSE IF Len(tc.data) = 1 THEN
        IF c \in {Digit(d) : d \in 0..9}
        THEN [ret |-> 0, tc |-> [tc EXCEPT !.data = Append(tc.data, c)]]
        ELSE IF c \in DOMAIN CsiLetter
        THEN [ret |-> 1, tc |-> [tc EXCEPT !.value = CsiLetter[c]]]
        ELSE [ret |-> -1, tc |-> tc]
    ELSE IF Len(tc.data) = 2 THEN
        IF c # Ch.tilde THEN [ret |-> -1, tc |-> tc]
        ELSE IF tc.data[2] \in DOMAIN CsiDigit
        THEN [ret |-> 1, tc |-> [tc EXCEPT !.value = CsiDigit[tc.data[2]]]]
        ELSE [ret |-> -1, tc |-> tc]
    ELSE [ret |-> -1, tc |-> tc]

\* the do-while of prompt: bytes are fed to __termchar_input until it
\* returns something other than 0; used is how many bytes that took
RECURSIVE Decode(_, _, _)
Decode(tc, bytes, used) ==
    IF used >= Len(bytes) THEN [ret |-> 0, tc |-> tc, used |-> used]
    ELSE LET r == termchar_input(tc, bytes[used + 1])
         IN  IF r.ret # 0 THEN [ret |-> r.ret, tc |-> r.tc, used |-> used + 1]
             ELSE Decode(r.tc, bytes, used + 1)

(***************************************************************************)
(* struct prompt and the handlers of __prompt_output.  A handler is given  *)
(* the struct and the history ring and returns what it returns (ret), the  *)
(* struct and the ring buffer after it, and whether it accessed memory out *)
(* of the bounds of an allocation (ub).                                    *)
(***************************************************************************)
\* sizeof(PRMT_SRCH_TEXT)-1, and where the query starts in it
PRMT_SRCH_TLEN == 20
PRMT_SRCH_QSTART == PRMT_SRCH_TLEN - 3

\* the struct after __prompt_reset
prompt_reset ==
    [prmt_line |-> <<>>, line_alloc |-> <<>>, prmt_cur_row |-> 0,
     prmt_cur_col |-> 0, in_srch |-> FALSE, srch_query |-> <<>>,
     prmt_srch_line_sz |-> 0, srch_alloc |-> 0]

\* __prompt_get(p, idx)
prompt_get_at(P, buf, cur, idx) ==
    IF idx >= 1 + HIST_MAX THEN NULL
    ELSE IF idx \in DOMAIN P.prmt_line THEN P.prmt_line[idx]
    ELSE IF idx # 0 THEN history_get(buf, cur, idx - 1)
    ELSE NULL

\* prompt_get(p)
prompt_get(P, buf, cur) == prompt_get_at(P, buf, cur, P.prmt_cur_row)

Ret(r, P, buf) == [ret |-> r, p |-> P, buf |-> buf, ub |-> FALSE]

Crash(P, buf) == [ret |-> -1, p |-> P, buf |-> buf, ub |-> TRUE]

\* the map f with row r set to v
SetRow(f, r, v) == [x \in DOMAIN f \cup {r} |-> IF x = r THEN v ELSE f[x]]

\* the handlers' curr_line after their strdup of the history line: the
\* row's own buffer, else a copy of the history line of a row above 0, else
\* NULL
curr_line(P, buf, cur) ==
    IF P.prmt_cur_row \in DOMAIN P.prmt_line
    THEN P.prmt_line[P.prmt_cur_row]
    ELSE IF P.prmt_cur_row # 0
    THEN history_get(buf, cur, P.prmt_cur_row - 1)
    ELSE NULL

\* how many bytes curr_line was allocated with
curr_alloc(P, buf, cur) ==
    IF P.prmt_cur_row \in DOMAIN P.prmt_line
    THEN P.line_alloc[P.prmt_cur_row]
    ELSE IF curr_line(P, buf, cur) # NULL
    THEN Len(curr_line(P, buf, cur)) + 1
    ELSE 0

\* the row's buffer written in place in the history line it came from,
\* without the strdup
prmt_line_store_InHistory(P, buf, cur, new, sz) ==
    [p |-> [P EXCEPT !.prmt_line = SetRow(@, P.prmt_cur_row, new),
                     !.line_alloc = SetRow(@, P.prmt_cur_row, sz)],
     buf |-> IF /\ P.prmt_cur_row \notin DOMAIN P.prmt_line
                /\ P.prmt_cur_row # 0
                /\ history_get(buf, cur, P.prmt_cur_row - 1) # NULL
             THEN SetRow(buf, history_slot(cur, P.prmt_cur_row - 1), new)
             ELSE buf]

\* prmt_line[prmt_cur_row] becomes new, in a buffer of sz bytes that is the
\* row's own: the history line is never written
prmt_line_store(P, buf, cur, new, sz) ==
    [p |-> [P EXCEPT !.prmt_line = SetRow(@, P.prmt_cur_row, new),
                     !.line_alloc = SetRow(@, P.prmt_cur_row, sz)],
     buf |-> buf]

\* the insertion of __prompt_output_line, at the start of the line whatever
\* the cursor
Insert_AtStart(c, col, s) == s \o c

\* c with s inserted at byte col
Insert(c, col, s) == SubSeq(c, 1, col) \o s \o SubSeq(c, col + 1, Len(c))

\* __prompt_output_line(p, s, n)
prompt_output_line(P, buf, cur, s, n) ==
    IF utf8_strnlen(s, n) \in {-1, 0} THEN Ret(-1, P, buf)
    ELSE LET cl == curr_line(P, buf, cur)
             c  == IF cl = NULL THEN <<>> ELSE cl
         IN  IF P.prmt_cur_col > Len(c) THEN Crash(P, buf)
             ELSE LET st == prmt_line_store(P, buf, cur,
                                Insert(c, P.prmt_cur_col, SubSeq(s, 1, n)),
                                Len(c) + n + 1)
                  IN  Ret(0, [st.p EXCEPT !.prmt_cur_col = @ + n], st.buf)

\* __prompt_output_backspace_line(p)
prompt_output_backspace_line(P, buf, cur) ==
    IF P.prmt_cur_col = 0 THEN Ret(0, P, buf)
    ELSE LET cl  == curr_line(P, buf, cur)
             col == P.prmt_cur_col
         IN  IF cl = NULL THEN Crash(P, buf)
             ELSE IF col > Len(cl) THEN Crash(P, buf)
             ELSE LET del0 == utf8_rsize(cl, col)
                      del  == IF del0 > col THEN col ELSE del0
                      st   == prmt_line_store(P, buf, cur,
                                  IF del0 = 0 THEN cl
                                  ELSE SubSeq(cl, 1, col - del) \o
                                       SubSeq(cl, col + 1, Len(cl)),
                                  curr_alloc(P, buf, cur))
                  IN  IF del0 = 0 THEN Ret(-1, st.p, st.buf)
                      ELSE Ret(0, [st.p EXCEPT !.prmt_cur_col = col - del],
                               st.buf)

\* __prompt_output_del(p): its memmove reads del bytes past the NUL
prompt_output_del(P, buf, cur) ==
    LET n   == strlen0(prompt_get(P, buf, cur))
        col == P.prmt_cur_col
    IN  IF col >= n THEN Ret(0, P, buf)
        ELSE LET cl   == curr_line(P, buf, cur)
                 del0 == utf8_size(cl[col + 1])
                 del  == IF del0 = -1 \/ del0 > n - col THEN n - col ELSE del0
                 st   == prmt_line_store(P, buf, cur,
                             IF del0 = 0 THEN cl
                             ELSE SubSeq(cl, 1, col) \o
                                  SubSeq(cl, col + del + 1, n),
                             curr_alloc(P, buf, cur))
             IN  IF del0 = 0 THEN Ret(-1, st.p, st.buf)
                 ELSE [ret |-> 0, p |-> st.p, buf |-> st.buf,
                       ub |-> n + del + 1 > curr_alloc(P, buf, cur)]

\* __prompt_output_cursor_backward(p)
prompt_output_cursor_backward(P, buf, cur) ==
    IF P.prmt_cur_col = 0 THEN Ret(0, P, buf)
    ELSE LET cl  == prompt_get(P, buf, cur)
             col == P.prmt_cur_col
         IN  IF cl = NULL THEN Crash(P, buf)
             ELSE IF col > Len(cl) THEN Crash(P, buf)
             ELSE LET cnt0 == utf8_rsize(cl, col)
                      cnt  == IF col < cnt0 THEN col ELSE cnt0
                  IN  IF cnt0 = 0 THEN Ret(-1, P, buf)
                      ELSE Ret(0, [P EXCEPT !.prmt_cur_col = col - cnt], buf)

\* __prompt_output_cursor_forward(p)
prompt_output_cursor_forward(P, buf, cur) ==
    LET cl  == prompt_get(P, buf, cur)
        sz  == strlen0(cl)
        col == P.prmt_cur_col
    IN  IF col >= sz THEN Ret(0, P, buf)
        ELSE LET cnt0 == utf8_size(cl[col + 1])
                 cnt  == IF col + cnt0 > sz THEN sz - col ELSE cnt0
             IN  IF cnt0 = 0 \/ cnt0 = -1 THEN Ret(-1, P, buf)
                 ELSE Ret(0, [P EXCEPT !.prmt_cur_col = col + cnt], buf)

\* __prompt_output_cursor_home(p): backward until the cursor is at 0
RECURSIVE prompt_output_cursor_home(_, _, _)
prompt_output_cursor_home(P, buf, cur) ==
    IF P.prmt_cur_col = 0 THEN Ret(0, P, buf)
    ELSE LET r == prompt_output_cursor_backward(P, buf, cur)
         IN  IF r.ret # 0 THEN r
             ELSE prompt_output_cursor_home(r.p, buf, cur)

\* __prompt_output_cursor_end(p): forward until the cursor is at the end
RECURSIVE prompt_output_cursor_end(_, _, _)
prompt_output_cursor_end(P, buf, cur) ==
    IF P.prmt_cur_col >= strlen0(prompt_get(P, buf, cur)) THEN Ret(0, P, buf)
    ELSE LET r == prompt_output_cursor_forward(P, buf, cur)
         IN  IF r.ret # 0 THEN r
             ELSE prompt_output_cursor_end(r.p, buf, cur)

\* __prompt_output_exit_search(p)
prompt_output_exit_search(P, buf) ==
    IF ~P.in_srch THEN Ret(0, P, buf)
    ELSE IF utf8_strnlen(P.srch_query, Len(P.srch_query)) = -1
    THEN Ret(-1, P, buf)
    ELSE Ret(0, [P EXCEPT !.in_srch = FALSE, !.srch_query = <<>>,
                          !.prmt_srch_line_sz = 0, !.srch_alloc = 0], buf)

\* __prompt_output_enter_search(p)
prompt_output_enter_search(P, buf, cur) ==
    IF P.in_srch THEN Ret(0, P, buf)
    ELSE LET sz == strlen0(prompt_get(P, buf, cur))
         IN  Ret(0, [P EXCEPT !.in_srch = TRUE, !.srch_query = <<>>,
                              !.prmt_srch_line_sz = PRMT_SRCH_TLEN + sz,
                              !.srch_alloc = PRMT_SRCH_TLEN + sz + 1], buf)

\* memmem(s, Len(s), needle, Len(needle)): the offsets at which needle
\* occurs in s
Occurrences(s, needle) ==
    {k \in 0..(Len(s) - Len(needle)) :
        SubSeq(s, k + 1, k + Len(needle)) = needle}

\* the rows from start_idx up in which __prompt_search finds needle
FoundRows(P, buf, cur, start_idx, needle) ==
    {i \in start_idx..HIST_MAX :
        /\ prompt_get_at(P, buf, cur, i) # NULL
        /\ Occurrences(prompt_get_at(P, buf, cur, i), needle) # {}}

\* the least member of a set of naturals that is not empty
Least(S) == CHOOSE x \in S : \A y \in S : x <= y

\* __prompt_search(p, start_idx, needle, needle_len): the first row from
\* start_idx up that holds needle becomes the current row, with the cursor
\* on the first occurrence
prompt_search(P, buf, cur, start_idx, needle) ==
    LET rows == FoundRows(P, buf, cur, start_idx, needle)
    IN  IF rows = {} THEN Ret(0, P, buf)
        ELSE LET idx == Least(rows)
                 s   == prompt_get_at(P, buf, cur, idx)
                 pos == Least(Occurrences(s, needle))
             IN  IF \/ utf8_strnlen(s, pos) = -1
                    \/ utf8_strnlen(prompt_get(P, buf, cur),
                                    P.prmt_cur_col) = -1
                 THEN Ret(-1, P, buf)
                 ELSE Ret(0, [P EXCEPT
                                !.srch_alloc = PRMT_SRCH_TLEN +
                                               Len(P.srch_query) + Len(s) + 1,
                                !.prmt_cur_row = idx,
                                !.prmt_cur_col = pos], buf)

\* the query of __prompt_output_search after s is typed, were
\* prmt_srch_query_sz to grow by the bytes of s
Grow_ByBytes(q, s) == q \o s

\* the query of __prompt_output_search after s is typed: s is inserted
\* after the query and prmt_srch_query_sz grows by one
Grow(q, s) == SubSeq(q \o s, 1, Len(q) + 1)

\* __prompt_output_search(p, s, n)
prompt_output_search(P, buf, cur, s, n) ==
    IF utf8_strnlen(s, n) \in {-1, 0} THEN Ret(-1, P, buf)
    ELSE LET Q == [P EXCEPT !.srch_alloc = P.prmt_srch_line_sz + n + 1,
                            !.prmt_srch_line_sz = @ + n,
                            !.srch_query = Grow(@, SubSeq(s, 1, n))]
         IN  prompt_search(Q, buf, cur, 0, Q.srch_query)

\* __prompt_output_next_search(p)
prompt_output_next_search(P, buf, cur) ==
    IF ~P.in_srch THEN Ret(-1, P, buf)
    ELSE prompt_search(P, buf, cur, P.prmt_cur_row + 1, P.srch_query)

\* __prompt_output_backspace_search(p): its memmove reads up to byte
\* prmt_srch_line_sz of a buffer that __prompt_search may have made shorter
prompt_output_backspace_search(P, buf) ==
    IF ~P.in_srch THEN Ret(-1, P, buf)
    ELSE IF Len(P.srch_query) = 0 THEN Ret(0, P, buf)
    ELSE LET q   == P.srch_query
             del == utf8_rsize(q, Len(q))
         IN  IF del = 0 THEN Ret(-1, P, buf)
             ELSE [ret |-> 0,
                   p |-> [P EXCEPT !.srch_query = SubSeq(q, 1, Len(q) - del),
                                   !.prmt_srch_line_sz = @ - del],
                   buf |-> buf,
                   ub |-> P.prmt_srch_line_sz + 1 > P.srch_alloc]

\* the row and cursor after __prompt_output_history_up or _down moved to
\* row
AtRow(P, buf, cur, row) ==
    LET Q == [P EXCEPT !.prmt_cur_row = row]
    IN  [Q EXCEPT !.prmt_cur_col = strlen0(prompt_get(Q, buf, cur))]

\* __prompt_output_history_up(p)
prompt_output_history_up(P, buf, cur) ==
    IF P.prmt_cur_row + 1 >= HIST_MAX + 1 THEN Ret(0, P, buf)
    ELSE IF history_get(buf, cur, P.prmt_cur_row) = NULL THEN Ret(0, P, buf)
    ELSE LET x == prompt_output_exit_search(P, buf)
         IN  IF x.ret # 0 THEN x
             ELSE Ret(0, AtRow(x.p, buf, cur, P.prmt_cur_row + 1), buf)

\* __prompt_output_history_down(p), were it to stay on the row
prompt_output_history_down_Stay(P, buf, cur) == Ret(0, P, buf)

\* __prompt_output_history_down(p)
prompt_output_history_down(P, buf, cur) ==
    IF P.prmt_cur_row = 0 THEN Ret(0, P, buf)
    ELSE LET x == prompt_output_exit_search(P, buf)
         IN  IF x.ret # 0 THEN x
             ELSE Ret(0, AtRow(x.p, buf, cur, P.prmt_cur_row - 1), buf)

\* __prompt_output_clear(p)
prompt_output_clear(P, buf) == prompt_output_exit_search(P, buf)

\* the handlers that work in line mode only
LineModeOnly == {"DEL", "BCKWARD", "FORWARD", "HOME", "END"}

\* fn(p, &moves) of __prompt_output
LineModeFn(P, buf, cur, value) ==
    CASE value = "DEL"     -> prompt_output_del(P, buf, cur)
      [] value = "BCKWARD" -> prompt_output_cursor_backward(P, buf, cur)
      [] value = "FORWARD" -> prompt_output_cursor_forward(P, buf, cur)
      [] value = "HOME"    -> prompt_output_cursor_home(P, buf, cur)
      [] value = "END"     -> prompt_output_cursor_end(P, buf, cur)

\* what __prompt_output returns for a handler's result: PRMT_ABRT or NULL
Handled(r) ==
    [res |-> IF r.ret # 0 THEN "ABRT" ELSE "NULL", text |-> <<>>,
     p |-> r.p, buf |-> r.buf, ub |-> r.ub]

\* what __prompt_output returns without a handler
Answer(res, text, P, buf) ==
    [res |-> res, text |-> text, p |-> P, buf |-> buf, ub |-> FALSE]

\* what ENTER returns, were it the query while in search mode
EnterText_Query(P, buf, cur) ==
    IF P.in_srch THEN P.srch_query
    ELSE IF prompt_get(P, buf, cur) = NULL THEN <<>>
    ELSE prompt_get(P, buf, cur)

\* what ENTER returns: prompt_get(p) ?: ""
EnterText(P, buf, cur) ==
    IF prompt_get(P, buf, cur) = NULL THEN <<>> ELSE prompt_get(P, buf, cur)

\* __prompt_output(p, input)
prompt_output(P, buf, cur, tc) ==
    IF tc.tch_type = "TEXT" THEN
        IF P.in_srch
        THEN Handled(prompt_output_search(P, buf, cur, tc.data, tc.sz))
        ELSE Handled(prompt_output_line(P, buf, cur, tc.data, tc.sz))
    ELSE IF tc.tch_type # "CTRL" THEN Answer("ABRT", <<>>, P, buf)
    ELSE IF tc.value = "EXIT" THEN Answer("EXIT", <<>>, P, buf)
    ELSE IF tc.value = "ENTER" THEN Answer("line", EnterText(P, buf, cur), P, buf)
    ELSE IF tc.value = "LINEKILL" THEN Answer("line", <<>>, P, buf)
    ELSE IF tc.value = "SEARCH" THEN
        IF P.in_srch THEN Handled(prompt_output_next_search(P, buf, cur))
        ELSE Handled(prompt_output_enter_search(P, buf, cur))
    ELSE IF tc.value = "TAB" THEN
        IF P.in_srch THEN Handled(prompt_output_exit_search(P, buf))
        ELSE Answer("NULL", <<>>, P, buf)
    ELSE IF tc.value = "BACKSPACE" THEN
        IF P.in_srch THEN Handled(prompt_output_backspace_search(P, buf))
        ELSE Handled(prompt_output_backspace_line(P, buf, cur))
    ELSE IF tc.value = "UP" THEN Handled(prompt_output_history_up(P, buf, cur))
    ELSE IF tc.value = "DN"
    THEN Handled(prompt_output_history_down(P, buf, cur))
    ELSE IF tc.value = "CLEAR" THEN Handled(prompt_output_clear(P, buf))
    ELSE IF tc.value \notin LineModeOnly THEN Answer("NULL", <<>>, P, buf)
    ELSE IF ~P.in_srch THEN Handled(LineModeFn(P, buf, cur, tc.value))
    ELSE LET x == prompt_output_exit_search(P, buf)
         IN  IF x.ret # 0 THEN Handled(x)
             ELSE Handled(LineModeFn(x.p, buf, cur, tc.value))

(***************************************************************************)
(* prompt: one action per key read by its loop.                            *)
(***************************************************************************)
\* how many keys a session of prompt is given
MaxKeys == 4

\* how many lines the history holds when the session starts
MaxHist == 2

\* the lines in the history: "ba", "aa", "è" and "é"
HistLines == {<<98, 97>>, <<97, 97>>, <<195, 168>>, <<195, 169>>}

\* the keys that are text: "a", "é" and "€"
TextKeys == {<<97>>, <<195, 169>>, <<226, 130, 172>>}

\* what is typed that is no key: ^G, ESC x, and the first byte of "é"
\* followed by "a"
BadKeys == {<<7>>, <<ESC, 120>>, <<195, 97>>}

\* the keys that are not text: ^A ^B ^C ^D ^E ^F ^L ^R, newline, tab,
\* backspace, ESC [ A, ESC [ B, ESC [ 3 ~ and ESC [ 5 ~
CtrlKeys ==
    {<<CTRL_A>>, <<CTRL_B>>, <<CTRL_C>>, <<CTRL_D>>, <<CTRL_E>>, <<CTRL_F>>,
     <<CTRL_L>>, <<CTRL_R>>, <<NL>>, <<TAB>>, <<BACKSPACE>>,
     <<ESC, Ch.lb, Ch.A>>, <<ESC, Ch.lb, Ch.B>>,
     <<ESC, Ch.lb, Digit(3), Ch.tilde>>, <<ESC, Ch.lb, Digit(5), Ch.tilde>>}

Keys == TextKeys \cup CtrlKeys \cup BadKeys

\* the ring after history_add of each of lines in turn
RECURSIVE HistoryOf(_)
HistoryOf(lines) ==
    IF lines = <<>> THEN [buf |-> <<>>, cur |-> 0]
    ELSE LET h == HistoryOf(SubSeq(lines, 1, Len(lines) - 1))
         IN  history_add(h.buf, h.cur, lines[Len(lines)])

\* prompt has not returned
NoRet == [res |-> "none", text |-> <<>>]

\* prompt has not been called
PromptIdle ==
    /\ prmt = prompt_reset
    /\ prompt_ret = NoRet
    /\ nkeys = 0
    /\ lastkey = ""
    /\ prevrow = 0
    /\ typed = [only |-> TRUE, text |-> <<>>]
    /\ query = <<>>
    /\ tch = termchar0
    /\ fed = <<>>
    /\ dret = 0

\* the name resolve_command_path looks up in the environment
PATH == <<"P", "A", "T", "H">>

\* putenv(str) on the environment env: str reads NAME=VALUE; without a `='
\* the name is taken out of the environment
putenv(env, str) ==
    LET k == strchr(str, "=")
        name == IF k = 0 THEN str ELSE SubSeq(str, 1, k - 1)
    IN  IF k = 0
        THEN [n \in DOMAIN env \ {name} |-> env[n]]
        ELSE [n \in DOMAIN env \cup {name} |->
                IF n = name THEN SubSeq(str, k + 1, Len(str)) ELSE env[n]]

\* the loop `for (env = envp; *env; env++) putenv(*env)' from entry k on
RECURSIVE PutAll(_, _, _)
PutAll(env, envp, k) ==
    IF k > Len(envp) THEN env
    ELSE PutAll(putenv(env, envp[k]), envp, k + 1)

\* the loop of resolve_command_path over what is left of $PATH: the first
\* directory, up to the next `:', that is not empty and holds command
\* (<<>> for NULL)
RECURSIVE ResolveFrom(_, _, _)
ResolveFrom(start, command, fs) ==
    IF start = <<>> THEN <<>>
    ELSE LET c == strchr(start, ":")
             end == IF c = 0 THEN Len(start) + 1 ELSE c
             dir == SubSeq(start, 1, end - 1)
             full_path == dir \o <<"/">> \o command
         IN  IF Len(dir) > 0 /\ full_path \in fs THEN full_path
             ELSE IF c = 0 THEN <<>>
             ELSE ResolveFrom(SubSeq(start, end + 1, Len(start)), command, fs)

\* resolve_command_path(command) in the environment env: NULL when
\* getenv("PATH") is
resolve_command_path(command, env, fs) ==
    IF PATH \notin DOMAIN env THEN <<>>
    ELSE ResolveFrom(env[PATH], command, fs)

\* no child is being set up
ChildIdle ==
    /\ child_pc = "idle"
    /\ child_lex = NewProc
    /\ environ = <<>>
    /\ files = {}
    /\ exe_path = <<>>

\* the event a decoded key is; text whose bytes after the first are not
\* all continuation bytes is told apart
EventOf(tc) ==
    IF tc.tch_type # "TEXT" THEN tc.value
    ELSE IF \A k \in 2..Len(tc.data) : tc.data[k] \in 128..191 THEN "TEXT"
    ELSE "BADTEXT"

\* the text typed so far, as long as nothing but text was typed before an
\* ENTER
TypedAfter(t, tc) ==
    IF t.only /\ EventOf(tc) = "TEXT"
    THEN [only |-> TRUE, text |-> t.text \o tc.data]
    ELSE IF t.only /\ EventOf(tc) = "ENTER" THEN t
    ELSE [only |-> FALSE, text |-> <<>>]

\* the query the user has typed: text typed in search mode joins it,
\* a backspace takes its last code point away
QueryAfter(q, P, tc, Q) ==
    IF ~Q.in_srch \/ ~P.in_srch THEN <<>>
    ELSE IF EventOf(tc) = "TEXT" THEN q \o tc.data
    ELSE IF EventOf(tc) = "BACKSPACE"
    THEN SubSeq(q, 1, Len(q) - utf8_rsize(q, Len(q)))
    ELSE q

\* what a key can leave behind: what __prompt_output makes of it, or, after
\* an access out of bounds, also a crash
Outcomes(o, P, buf) ==
    {[p |-> o.p, buf |-> o.buf,
      ret |-> [res |-> IF o.res = "NULL" THEN "none" ELSE o.res,
               text |-> o.text]]}
    \cup IF o.ub
         THEN {[p |-> P, buf |-> buf,
                ret |-> [res |-> "crashed", text |-> <<>>]]}
         ELSE {}

\* one iteration of the loop of prompt: a key is read byte by byte and
\* decoded, and __prompt_output acts on it; a key that does not decode is
\* ignored
PromptKey ==
    /\ prompt_ret.res = "none"
    /\ nkeys < MaxKeys
    /\ \E k \in Keys :
         LET d == Decode(termchar0, k, 0)
         IN  IF d.ret = 1
             THEN \E out \in Outcomes(prompt_output(prmt, history_buf,
                                          history_cur, d.tc),
                                      prmt, history_buf) :
                     /\ prmt' = out.p
                     /\ history_buf' = out.buf
                     /\ prompt_ret' = out.ret
                     /\ lastkey' = EventOf(d.tc)
                     /\ typed' = TypedAfter(typed, d.tc)
                     /\ query' = QueryAfter(query, prmt, d.tc, out.p)
             ELSE /\ prompt_ret' \in
                        IF d.ret = -2
                        THEN {NoRet, [res |-> "crashed", text |-> <<>>]}
                        ELSE {NoRet}
                  /\ lastkey' = "ignored"
                  /\ typed' = [only |-> FALSE, text |-> <<>>]
                  /\ UNCHANGED <<prmt, history_buf, query>>
    /\ nkeys' = nkeys + 1
    /\ prevrow' = prmt.prmt_cur_row
    /\ UNCHANGED <<history_cur, nadds, shellvars, decvars, childvars>>

\* GETCHAR fails: getchar returned EOF and errno is not EINTR.  prompt
\* jumps to out with ret still NULL, restores the terminal and returns NULL
PromptReadFails ==
    /\ prompt_ret.res = "none"
    /\ nkeys < MaxKeys
    /\ prompt_ret' = [res |-> "NULL", text |-> <<>>]
    /\ lastkey' = "readfail"
    /\ nkeys' = nkeys + 1
    /\ prevrow' = prmt.prmt_cur_row
    /\ typed' = [only |-> FALSE, text |-> <<>>]
    /\ UNCHANGED <<prmt, query, histvars, shellvars, decvars, childvars>>

\* interactive: prompt returned NULL or an empty line, the loop continues
\* and calls prompt again, which returns PRMT_ABRT at once if it cannot set
\* the terminal up and else resets the struct and reads keys
PromptAgain ==
    /\ \/ prompt_ret.res = "NULL"
       \/ prompt_ret.res = "line" /\ prompt_ret.text = <<>>
    /\ \E ok \in BOOLEAN :
         /\ prompt_ret' = IF ok THEN NoRet ELSE [res |-> "ABRT", text |-> <<>>]
         /\ prmt' = IF ok THEN prompt_reset ELSE prmt
    /\ lastkey' = "again"
    /\ prevrow' = 0
    /\ typed' = [only |-> TRUE, text |-> <<>>]
    /\ query' = <<>>
    /\ UNCHANGED <<nkeys, histvars, shellvars, decvars, childvars>>

(***************************************************************************)
(* The decoder on its own: the do-while of prompt, one action per byte.    *)
(***************************************************************************)
\* how many bytes the decoder is given for one key
MaxFeed == 7

\* the bytes the decoder is given: every control character, the characters
\* escape sequences are made of, "a", two continuation bytes, the first and
\* the last leading byte of each size and two bytes that lead nothing
Bytes ==
    (0..31) \cup {BACKSPACE}
    \cup {Ch.lb, Ch.O, Ch.tilde, Ch.A, Ch.B, Ch.C, Ch.D, Ch.F, Ch.H}
    \cup {Digit(d) : d \in 0..9}
    \cup {97, 128, 191, 192, 223, 224, 239, 240, 247, 248, 255}

\* the bytes it is given while it accumulates text, which it stores without
\* looking at them: "a", ESC and two continuation bytes
TextBytes == {97, ESC, 128, 191}

\* GETCHAR and __termchar_input on the byte read
DecoderFeed ==
    /\ dret = 0
    /\ Len(fed) < MaxFeed
    /\ \E c \in IF tch.tch_type = "TEXT" THEN TextBytes ELSE Bytes :
         /\ tch' = termchar_input(tch, c).tc
         /\ dret' = termchar_input(tch, c).ret
         /\ fed' = Append(fed, c)
    /\ UNCHANGED <<shellvars, histvars, promptvars, childvars>>

\* the memset of the next iteration, after __termchar_input returned 1 or -1
DecoderReset ==
    /\ dret \in {1, -1}
    /\ tch' = termchar0
    /\ fed' = <<>>
    /\ dret' = 0
    /\ UNCHANGED <<shellvars, histvars, promptvars, childvars>>

\* history_add of the next line
HistoryAdd ==
    /\ nadds < MaxAdds
    /\ LET h == history_add(history_buf, history_cur, LineNo(nadds))
       IN  history_buf' = h.buf /\ history_cur' = h.cur
    /\ nadds' = nadds + 1
    /\ UNCHANGED <<shellvars, promptvars, decvars, childvars>>

(***************************************************************************)
(* interactive: one action per iteration of its loop in which prompt       *)
(* returns a line that is not empty.                                       *)
(***************************************************************************)
\* rmsh_input has returned
Returned == {"error", "failed", "aborted", "done"}

\* the shell, in the foreground, reads the next line; prompt leaves the
\* terminal with the saved attributes, the line joins the history and
\* rmsh_input starts on it.  The children the last job never waited for stay
\* children of the shell.
NextLine ==
    /\ pc \in Returned
    /\ sh_pgid # -1
    /\ round < MaxRounds
    /\ tcpgrp = sh_pgid
    /\ input' \in Lines
    /\ cursor' = 1
    /\ line' = 1
    /\ tok_head' = <<>>
    /\ error' = ""
    /\ pc' = "proc"
    /\ p' = NewProc
    /\ done_vars' = FALSE
    /\ premeta' = <<>>
    /\ procarr' = <<>>
    /\ pipeline' = <<>>
    /\ toklog' = <<>>
    /\ job' = <<>>
    /\ infile' = STDIN_FILENO
    /\ outfile' = -1
    /\ iopipe' = -1
    /\ jpgid' = 0
    /\ tcattr' = "saved"
    /\ orphans' = orphans \o Unreaped(job)
    /\ round' = round + 1
    /\ LET h == history_add(history_buf, history_cur, input')
       IN  history_buf' = h.buf /\ history_cur' = h.cur
    /\ nadds' = nadds + 1
    /\ UNCHANGED <<shfds, sh_pgid, tcpgrp, nextpid, promptvars, decvars,
                   childvars>>

(***************************************************************************)
(* The specification: rmsh_input on every input line within the bounds, up *)
(* to the point where the job is launched, in a shell started with -c.     *)
(***************************************************************************)
Init ==
    /\ input \in Inputs
    /\ cursor = 1
    /\ line = 1
    /\ tok_head = <<>>
    /\ error = ""
    /\ pc = "proc"
    /\ p = NewProc
    /\ done_vars = FALSE
    /\ premeta = <<>>
    /\ procarr = <<>>
    /\ pipeline = <<>>
    /\ toklog = <<>>
    /\ job = <<>>
    /\ shfds = ShellFds
    /\ infile = STDIN_FILENO
    /\ outfile = -1
    /\ iopipe = -1
    /\ sh_pgid = -1
    /\ jpgid = -1
    /\ tcpgrp = ShellPgid
    /\ tcattr = "saved"
    /\ orphans = <<>>
    /\ nextpid = ShellPgid + 1
    /\ round = 1
    /\ history_buf = <<>>
    /\ history_cur = 0
    /\ nadds = 0
    /\ PromptIdle
    /\ ChildIdle

Next ==
    \/ ProcPopFails
    \/ ProcRedirReparse
    \/ ProcRedir
    \/ ProcOtherMeta
    \/ ProcPremeta
    \/ ProcWord
    \/ ProcEnd
    \/ PipeStep
    \/ LaunchProc
    \/ LaunchParent
    \/ LaunchPipeFails
    \/ LaunchForkFails
    \/ \E i \in 1..Len(job) : ChildRun(i)

Spec == Init /\ [][Next]_vars

(***************************************************************************)
(* The shell as a whole: started with -c on one line, or interactive on a  *)
(* terminal and given up to MaxRounds lines.                               *)
(***************************************************************************)
ShellInit ==
    /\ sh_pgid \in {-1, ShellPgid}
    /\ input \in IF sh_pgid # -1 THEN Lines ELSE CmdLines
    /\ cursor = 1
    /\ line = 1
    /\ tok_head = <<>>
    /\ error = ""
    /\ pc = "proc"
    /\ p = NewProc
    /\ done_vars = FALSE
    /\ premeta = <<>>
    /\ procarr = <<>>
    /\ pipeline = <<>>
    /\ toklog = <<>>
    /\ job = <<>>
    /\ shfds = ShellFds
    /\ infile = STDIN_FILENO
    /\ outfile = -1
    /\ iopipe = -1
    /\ jpgid = IF sh_pgid # -1 THEN 0 ELSE -1
    /\ tcpgrp = ShellPgid
    /\ tcattr = "saved"
    /\ orphans = <<>>
    /\ nextpid = ShellPgid + 1
    /\ round = 1
    /\ LET h == history_add(<<>>, 0, input)
       IN  IF sh_pgid # -1
           THEN history_buf = h.buf /\ history_cur = h.cur /\ nadds = 1
           ELSE history_buf = <<>> /\ history_cur = 0 /\ nadds = 0
    /\ PromptIdle
    /\ ChildIdle

ShellNext ==
    \/ ProcPopFails
    \/ ProcRedirReparse
    \/ ProcRedir
    \/ ProcOtherMeta
    \/ ProcPremeta
    \/ ProcWord
    \/ ProcEnd
    \/ PipeStep
    \/ LaunchProc
    \/ LaunchParent
    \/ LaunchPipeFails
    \/ LaunchForkFails
    \/ \E i \in 1..Len(job) : ChildRun(i)
    \/ \E i \in 1..Len(job) : ProgramEnds(i)
    \/ \E k \in 1..Len(orphans) : OrphanRun(k)
    \/ \E k \in 1..Len(orphans) : OrphanEnds(k)
    \/ \E i \in 1..Len(job) : WaitReap(i)
    \/ \E k \in 1..Len(orphans) : WaitUnknownPid(k)
    \/ WaitReturn
    \/ NextLine

ShellSpec == ShellInit /\ [][ShellNext]_vars

(***************************************************************************)
(* The line editor: prompt, called by an interactive shell whose history   *)
(* holds up to MaxHist lines, is given up to MaxKeys keys.                 *)
(***************************************************************************)
\* the shell between two lines
ShellIdle ==
    /\ input = <<>>
    /\ cursor = 1
    /\ line = 1
    /\ tok_head = <<>>
    /\ error = ""
    /\ pc = "done"
    /\ p = NewProc
    /\ done_vars = FALSE
    /\ premeta = <<>>
    /\ procarr = <<>>
    /\ pipeline = <<>>
    /\ toklog = <<>>
    /\ job = <<>>
    /\ shfds = ShellFds
    /\ infile = STDIN_FILENO
    /\ outfile = -1
    /\ iopipe = -1
    /\ sh_pgid = ShellPgid
    /\ jpgid = 0
    /\ tcpgrp = ShellPgid
    /\ tcattr = "saved"
    /\ orphans = <<>>
    /\ nextpid = ShellPgid + 1
    /\ round = 1

EditInit ==
    /\ ShellIdle
    /\ \E n \in 0..MaxHist : \E lines \in [1..n -> HistLines] :
         /\ history_buf = HistoryOf(lines).buf
         /\ history_cur = HistoryOf(lines).cur
         /\ nadds = n
    /\ PromptIdle
    /\ ChildIdle

EditNext ==
    \/ PromptKey
    \/ PromptReadFails
    \/ PromptAgain

EditSpec == EditInit /\ [][EditNext]_vars

(***************************************************************************)
(* The key decoder: prompt reads a key byte by byte.                       *)
(***************************************************************************)
DecodeInit ==
    /\ ShellIdle
    /\ history_buf = <<>>
    /\ history_cur = 0
    /\ nadds = 0
    /\ PromptIdle
    /\ ChildIdle

DecodeNext ==
    \/ DecoderFeed
    \/ DecoderReset

DecodeSpec == DecodeInit /\ [][DecodeNext]_vars

(***************************************************************************)
(* The end of rmsh_child, after the redirections: argv[0] is resolved,     *)
(* the env assignments are put into the environment, execv is called.      *)
(***************************************************************************)
\* how many env assignments the command has
MaxEnv == 2

\* the values $PATH has: a directory, two directories, an empty entry
\* first, the empty string
PathValues ==
    {<<"x">>, <<"y">>, <<"x", ":", "y">>, <<"y", ":", "x">>, <<":", "y">>, <<>>}

\* the env assignments of the command: PATH=x, PATH=y, PATH=y:x, a=x
EnvWords ==
    {PATH \o <<"=", "x">>, PATH \o <<"=", "y">>,
     PATH \o <<"=", "y", ":", "x">>, <<"a", "=", "x">>}

\* the commands: `c', looked up in $PATH, and `x/c', which is not
Commands == {<<"c">>, <<"x", "/", "c">>}

\* the files there can be
Files == {<<"x", "/", "c">>, <<"y", "/", "c">>}

\* `resolve argv0 to exe path'
ChildResolve ==
    /\ child_pc = "resolve"
    /\ exe_path' = IF strchr(child_lex.argv[1], "/") # 0 THEN child_lex.argv[1]
                   ELSE resolve_command_path(child_lex.argv[1], environ, files)
    /\ child_pc' = IF exe_path' = <<>> THEN "out" ELSE "putenv"
    /\ UNCHANGED <<child_lex, environ, files, shellvars, histvars, promptvars,
                   decvars>>

\* `add env vars to current process'
ChildPutenv ==
    /\ child_pc = "putenv"
    /\ environ' = PutAll(environ, child_lex.envp, 1)
    /\ child_pc' = "execv"
    /\ UNCHANGED <<child_lex, files, exe_path, shellvars, histvars, promptvars,
                   decvars>>

\* execv(exe_path, argv): the file may be missing or not executable
ChildExecv ==
    /\ child_pc = "execv"
    /\ \E ok \in BOOLEAN :
         child_pc' = IF ok /\ exe_path \in files THEN "execd" ELSE "out"
    /\ UNCHANGED <<child_lex, environ, files, exe_path, shellvars, histvars,
                   promptvars, decvars>>

ChildInit ==
    /\ ShellIdle
    /\ history_buf = <<>>
    /\ history_cur = 0
    /\ nadds = 0
    /\ PromptIdle
    /\ child_pc = "resolve"
    /\ \E n \in 0..MaxEnv : \E envp \in [1..n -> EnvWords] :
       \E cmd \in Commands :
         child_lex = [NewProc EXCEPT !.envp = envp, !.argv = <<cmd>>]
    /\ environ \in {<<>>} \cup {(PATH :> v) : v \in PathValues}
    /\ files \in SUBSET Files
    /\ exe_path = <<>>

ChildNext ==
    \/ ChildResolve
    \/ ChildPutenv
    \/ ChildExecv

ChildSpec == ChildInit /\ [][ChildNext]_vars

(***************************************************************************)
(* The history ring: MaxAdds lines are added to an empty history.          *)
(***************************************************************************)
HistInit ==
    /\ ShellIdle
    /\ history_buf = <<>>
    /\ history_cur = 0
    /\ nadds = 0
    /\ PromptIdle
    /\ ChildIdle

HistNext == HistoryAdd

HistSpec == HistInit /\ [][HistNext]_vars

(***************************************************************************)
(* The interactive loop over the history: every iteration hands            *)
(* history_add the pointer prompt returned, which is the row's own buffer  *)
(* for a typed or edited line and the history entry itself for a row that  *)
(* was reached and never edited.                                           *)
(***************************************************************************)
\* the history rows the accepted line is taken from
AcceptRows == {1, 2, HIST_MAX - 1, HIST_MAX}

\* what strdup can read in a block that free has released: the bytes as they
\* were, or the allocator's own data in their place
Freed(s) == {s, <<>>}

\* history_add(line) where line is history_buf[slot] itself: the entry in
\* slot cur is freed first, strdup(line) reads line after that
history_add_entry(buf, cur, slot) ==
    IF slot = cur
    THEN [ub |-> TRUE,
          adds |-> {history_add(buf, cur, g) : g \in Freed(buf[slot])}]
    ELSE [ub |-> FALSE,
          adds |-> {history_add(buf, cur, buf[slot])}]

\* an iteration in which the line was typed: history_add of a fresh buffer
InteractiveTyped ==
    /\ prompt_ret = NoRet
    /\ HistoryAdd

\* an iteration in which prompt returned history row r as it is
InteractiveEntry ==
    /\ prompt_ret = NoRet
    /\ nadds < MaxAdds
    /\ \E r \in AcceptRows :
          /\ history_get(history_buf, history_cur, r - 1) # NULL
          /\ LET slot == history_slot(history_cur, r - 1)
                 a == history_add_entry(history_buf, history_cur, slot)
             IN  \/ /\ \E h \in a.adds :
                          history_buf' = h.buf /\ history_cur' = h.cur
                     /\ prompt_ret' = [res |-> "line", text |-> history_buf[slot]]
                 \/ /\ a.ub
                     /\ prompt_ret' = [res |-> "crashed", text |-> history_buf[slot]]
                     /\ UNCHANGED <<history_buf, history_cur>>
    /\ nadds' = nadds + 1
    /\ UNCHANGED <<shellvars, prmt, nkeys, lastkey, prevrow, typed, query,
                   decvars, childvars>>

AcceptInit == HistInit

AcceptNext == InteractiveTyped \/ InteractiveEntry

AcceptSpec == AcceptInit /\ [][AcceptNext]_vars



(***************************************************************************)
(* What the properties below are stated over.                              *)
(***************************************************************************)
\* the process descriptors completed so far, in textual order
Built ==
    IF pipeline # <<>> THEN pipeline
    ELSE IF pc = "pipe" THEN Append(procarr, p)
    ELSE procarr

\* an operator token that is no redirection operator: it ends a process
IsBoundary(t) == LEXF_META \in t.flags /\ t.s[1] \notin {"<", ">"}

\* a word token (not an operator, not the end-of-input token)
IsWordTok(t) == LEXF_META \notin t.flags /\ ~t.null

\* index of the first boundary token of log at or after i (Len(log)+1 if none)
RECURSIVE FirstBoundary(_, _)
FirstBoundary(log, i) ==
    IF i > Len(log) \/ IsBoundary(log[i]) THEN i ELSE FirstBoundary(log, i + 1)

\* the tokens of the k-th process: those between boundary k-1 and boundary k
RECURSIVE Seg(_, _)
Seg(log, k) ==
    LET b == FirstBoundary(log, 1) IN
    IF k = 1 THEN SubSeq(log, 1, b - 1)
    ELSE Seg(SubSeq(log, b + 1, Len(log)), k - 1)

\* where the tokens a descriptor's redirections were built from start
RedirFroms(proc) ==
    {proc.redirs[i].src.from : i \in 1..Len(proc.redirs)}
    \cup {proc.redirs[i].pre.from : i \in 1..Len(proc.redirs)}

\* the texts of the plain words of the k-th process, in textual order: its
\* word tokens that no redirection took as target fd or as source
PlainWords(proc, k) ==
    LET plain(t) == IsWordTok(t) /\ t.from \notin RedirFroms(proc)
        toks == SelectSeq(Seg(toklog, k), plain)
    IN  [i \in 1..Len(toks) |-> toks[i].s]

\* w reads NAME=...: a valid identifier before its first `='
IsAssignment(w) ==
    \E i \in 2..Len(w) :
        /\ w[i] = "="
        /\ \A j \in 1..(i - 1) : w[j] # "="
        /\ w[1] \in Alphas \cup {"_"}
        /\ \A j \in 2..(i - 1) : w[j] \in Alphas \cup Digits \cup {"_"}

\* how many leading words of ws are assignments
LeadingAssignments(ws) ==
    CHOOSE n \in 0..Len(ws) :
        /\ \A i \in 1..n : IsAssignment(ws[i])
        /\ n = Len(ws) \/ ~IsAssignment(ws[n + 1])

\* all redirections of the completed descriptors and of the one being built
AllRedirs ==
    UNION {{Built[k].redirs[i] : i \in 1..Len(Built[k].redirs)} : k \in 1..Len(Built)}
    \cup {p.redirs[i] : i \in 1..Len(p.redirs)}

\* the text of w is a run of decimal digits
IsDecimal(w) == w # <<>> /\ \A i \in 1..Len(w) : w[i] \in Digits

(***************************************************************************)
(* C1: for every FD_IN/FD_OUT redirection of a parsed pipeline the         *)
(* recorded source fd is the number written in the word after the          *)
(* operator, and the child duplicates that fd onto the target fd.          *)
(* Fails: source.fd is never assigned (see SourceFd).                      *)
(***************************************************************************)
C1_SourceFdIsWrittenFd ==
    /\ \A rd \in AllRedirs :
        rd.op.s \in {<<"<", "&">>, <<">", "&">>} /\ IsDecimal(rd.src.s) =>
            /\ rd.type \in LEXRT_FD
            /\ rd.fd = DecValue(rd.src.s, 1, Len(rd.src.s))
    /\ \A i \in 1..Len(job) :
        job[i].st = "exec" =>
            \A k \in 1..Len(job[i].lex.redirs) :
                LET rd == job[i].lex.redirs[k]
                    n == DecValue(rd.src.s, 1, Len(rd.src.s))
                IN  /\ rd.op.s \in {<<"<", "&">>, <<">", "&">>}
                    /\ IsDecimal(rd.src.s)
                    /\ n # rd.redir_fd
                    => \E d \in 1..Len(job[i].dups) :
                            job[i].dups[d] = <<n, rd.redir_fd>>

RECURSIVE SplitAt(_, _)
SplitAt(str, seps) ==
    IF \A i \in 1..Len(str) : str[i] \notin seps THEN <<str>>
    ELSE LET i == CHOOSE j \in 1..Len(str) :
                    str[j] \in seps /\ \A m \in 1..(j - 1) : str[m] \notin seps
         IN  <<SubSeq(str, 1, i - 1)>> \o SplitAt(SubSeq(str, i + 1, Len(str)), seps)

NonEmpty(s) == s # <<>>

\* the words of an unquoted command text
WordsOf(cmd) == SelectSeq(SplitAt(cmd, IFS), NonEmpty)

\* the input is made of plain words, IFS and `|' only, and every command
\* between two `|' has at least one word
IsSimplePipeline(inp) ==
    /\ \A i \in 1..Len(inp) : inp[i] \notin QUOTES \cup (METACHARS \ {"|"})
    /\ \A k \in 1..Len(SplitAt(inp, {"|"})) : WordsOf(SplitAt(inp, {"|"})[k]) # <<>>

C3_PipelineSplitting ==
    IsSimplePipeline(input) =>
        /\ pc \notin {"error", "panic"}
        /\ pipeline # <<>> =>
            LET cmds == SplitAt(input, {"|"}) IN
            /\ Len(pipeline) = Len(cmds)
            /\ \A k \in 1..Len(cmds) :
                pipeline[k].envp \o pipeline[k].argv = WordsOf(cmds[k])

(***************************************************************************)
(* C4: every recorded redirection has the type its operator maps to        *)
(* (< PATH_IN, > PATH_OTRUNC, >> PATH_OAPPEND, <> PATH_INOUT, <& FD_IN,    *)
(* >& FD_OUT); without fd prefix its target fd is 0 for `<...' and 1 for   *)
(* `>...'; the word after a PATH operator is kept as the path and is no    *)
(* env/argv word; the redirections of a process are in textual order; an   *)
(* operator is refused with `unknown redirection op' exactly when it is    *)
(* none of the six.                                                        *)
(* Fails: the operator's text is not terminated (see CStrings).            *)
(***************************************************************************)
OpType(op) ==
    CASE op = <<"<">> -> LEXRT_PATH_IN
      [] op = <<">">> -> LEXRT_PATH_OTRUNC
      [] op = <<">", ">">> -> LEXRT_PATH_OAPPEND
      [] op = <<"<", ">">> -> LEXRT_PATH_INOUT
      [] op = <<"<", "&">> -> LEXRT_FD_IN
      [] op = <<">", "&">> -> LEXRT_FD_OUT
      [] OTHER -> "none"

C4_OperatorMapping ==
    /\ \A rd \in AllRedirs :
        /\ rd.type = OpType(rd.op.s)
        /\ rd.pre = NoTok => rd.redir_fd = (IF rd.op.s[1] = "<" THEN 0 ELSE 1)
        /\ rd.type \in LEXRT_PATH => rd.path = rd.src.s
    /\ \A k \in 1..Len(Built) :
        /\ Len(Built[k].envp) + Len(Built[k].argv) = Len(PlainWords(Built[k], k))
        /\ \A i, j \in 1..Len(Built[k].redirs) :
            i < j => Built[k].redirs[i].op.from < Built[k].redirs[j].op.from
    /\ \A i \in 1..Len(toklog) :
        /\ LEXF_META \in toklog[i].flags
        /\ toklog[i].s[1] \in {"<", ">"}
        /\ OpType(toklog[i].s) = "none"
        /\ i > 1 => ~(LEXF_META \in toklog[i - 1].flags
                      /\ toklog[i - 1].s[1] \in {"<", ">"})
        /\ \A j \in 1..Len(tok_head) : tok_head[j] # toklog[i]
        => pc = "error" /\ error = E_REDIR_OP
    /\ (pc = "error" /\ error = E_REDIR_OP) =>
        /\ toklog # <<>>
        /\ LEXF_META \in toklog[Len(toklog)].flags
        /\ toklog[Len(toklog)].s[1] \in {"<", ">"}
        /\ OpType(toklog[Len(toklog)].s) = "none"

(***************************************************************************)
(* C5: a word is taken as the target fd of a redirection if and only if    *)
(* it is directly followed by the operator and its whole text is a         *)
(* non-negative decimal integer; a word directly followed by the operator  *)
(* that is no such integer is an env/argv word and the operator has its    *)
(* default fd; a number separated from the operator by IFS is an argv word.*)
(* Fails: strtol also accepts a sign and leading white space.              *)
(***************************************************************************)
C5_FdPrefixRule ==
    /\ \A rd \in AllRedirs :
        rd.pre # NoTok =>
            /\ IsDecimal(rd.pre.s)
            /\ rd.pre.to = rd.op.from
            /\ rd.redir_fd = DecValue(rd.pre.s, 1, Len(rd.pre.s))
    /\ \A rd \in AllRedirs :
        rd.pre = NoTok =>
            \A i \in 1..Len(toklog) :
                /\ IsWordTok(toklog[i])
                /\ toklog[i].to = rd.op.from
                /\ \A r2 \in AllRedirs : r2.src # toklog[i]
                => ~IsDecimal(toklog[i].s)

(***************************************************************************)
(* C6: the text of every word token is its stretch of the input with each  *)
(* quoted section replaced by its interior, byte for byte (IFS bytes,      *)
(* metacharacters and the other quote character included), and the         *)
(* stretch is a whole word: it starts and ends outside quotes, holds no    *)
(* unquoted IFS byte or metacharacter, and is delimited on both sides by   *)
(* one (or by an end of the input).                                        *)
(* The property is about word tokens.  A word made of empty quoted         *)
(* sections only that stands directly before a metacharacter yields none:  *)
(* tok->n is still 0 there, so lex_pop_token goes on with the operator in  *)
(* the same token.                                                         *)
(***************************************************************************)
\* the quote that is open after the first i bytes of inp ("" if none)
RECURSIVE QuoteState(_, _)
QuoteState(inp, i) ==
    IF i = 0 THEN ""
    ELSE LET q == QuoteState(inp, i - 1) IN
         IF q = "" THEN (IF inp[i] \in QUOTES THEN inp[i] ELSE "")
         ELSE IF inp[i] = q THEN "" ELSE q

\* byte i of inp is a delimiter of a quoted section
IsDelimiter(inp, i) ==
    \/ QuoteState(inp, i - 1) = "" /\ inp[i] \in QUOTES
    \/ QuoteState(inp, i - 1) # "" /\ inp[i] = QuoteState(inp, i - 1)

\* byte i of inp is an IFS byte or a metacharacter outside quotes
IsSeparator(inp, i) ==
    QuoteState(inp, i - 1) = "" /\ inp[i] \in IFS \cup METACHARS

\* inp[i..j] without the delimiters of its quoted sections
RECURSIVE Dequoted(_, _, _)
Dequoted(inp, i, j) ==
    IF i > j THEN <<>>
    ELSE Dequoted(inp, i, j - 1) \o (IF IsDelimiter(inp, j) THEN <<>> ELSE <<inp[j]>>)

Unterminated(inp) == QuoteState(inp, Len(inp)) # ""

\* where the quote left open starts
OpenQuote(inp) ==
    CHOOSE i \in 1..Len(inp) :
        /\ QuoteState(inp, i - 1) = ""
        /\ \A j \in i..Len(inp) : QuoteState(inp, j) # ""

C7_AlwaysQuoteError ==
    Unterminated(input) /\ pc \notin {"proc", "pipe"} =>
        /\ pc = "error" /\ error = E_QUOTE
        /\ pipeline = <<>> /\ job = <<>>

(***************************************************************************)
(* C7 amended: an input with a quote left open is never parsed to a        *)
(* pipeline and no process is forked for it; parsing can only end in an    *)
(* error, which is `unexpected EOF while looking for matching quote'       *)
(* unless a token before the open quote was refused first.                 *)
(***************************************************************************)
C7_UnterminatedQuote ==
    Unterminated(input) =>
        /\ pipeline = <<>> /\ job = <<>>
        /\ pc \in {"proc", "pipe", "error"}
        /\ pc = "error" =>
            \/ error = E_QUOTE
            \/ error # "" /\ cursor <= OpenQuote(input)

\* the quote error itself, met after a first word was lexed
C7_Witness ==
    /\ Unterminated(input)
    /\ pc = "error" /\ error = E_QUOTE
    /\ \E n \in 1..Len(toklog) : IsWordTok(toklog[n])

(***************************************************************************)
(* C8: when the token after a process is `|' and the token after that is   *)
(* the end of the input, parsing fails with `syntax error: unexpected end  *)
(* of file'; when the token after a process is an operator other than      *)
(* exactly `|', parsing fails with an error; a failed parse returns no     *)
(* pipeline and nothing is launched.                                       *)
(* Fails: the text of the `|' token is not terminated (see CStrings).      *)
(***************************************************************************)
C8_PipelineSyntaxErrors ==
    [][ /\ pc = "pipe" /\ Pop.ret = 0 /\ LEXF_META \in Pop.tok.flags =>
            LET after == lex_pop_token(input, Pop.tok_head, Pop.cursor, Pop.line) IN
            /\ Pop.tok.s = <<"|">> /\ after.ret = 0 /\ after.tok.null =>
                pc' = "error" /\ error' = E_PIPE_EOF
            /\ Pop.tok.s # <<"|">> => pc' = "error" /\ error' # ""
        /\ pc' = "error" => pipeline' = <<>> /\ job' = <<>>
      ]_vars

(***************************************************************************)
(* C9: in a parsed pipeline a descriptor has an empty argv only if it is   *)
(* the last one and consists of env assignments alone (the input ends      *)
(* right after them): none that stands next to a `|', is made of           *)
(* redirections only or of white space only.                               *)
(* Fails: lex_pop_proc returns a descriptor for any run of tokens, an      *)
(* empty one included, and lex_pop_pipeline accepts it.                    *)
(***************************************************************************)
C9_EmptyArgvOnlyAfterEnv ==
    pipeline # <<>> /\ input # <<>> =>
        \A k \in 1..Len(pipeline) :
            pipeline[k].argv = <<>> =>
                /\ k = Len(pipeline)
                /\ pipeline[k].envp # <<>>
                /\ pipeline[k].redirs = <<>>

(***************************************************************************)
(* C10: a child whose descriptor has no argv[0] and whose redirections     *)
(* were set up ends with a diagnostic and exit status 1, and argv[0] is    *)
(* never read through.                                                     *)
(* Fails: rmsh_child hands argv[0], the NULL pointer, to strchr.           *)
(***************************************************************************)
C10_MissingArgv0IsAnError ==
    \A i \in 1..Len(job) :
        /\ job[i].lex.argv = <<>>
        /\ job[i].st # "forked"
        /\ job[i].diag \notin {"open", "dup"}
        => /\ job[i].st = "exited"
           /\ job[i].status = 1
           /\ job[i].diag # ""
           /\ ~job[i].nullread


(***************************************************************************)
(* C11-C15: the job, its process group and the terminal.                   *)
(***************************************************************************)
\* the status recorded for c is the one c itself ended with
RecordedOwn(c) ==
    /\ Terminated(c)
    /\ c.st = "exited" => c.return_status = c.status /\ c.return_signal = 0
    /\ c.st = "signaled" => c.return_status = 128 + c.termsig /\ c.return_signal = c.termsig

\* C11: wait_rmsh_job returns success only once every process of the job
\* has a recorded status, and whatever the order in which the children end
\* and are reaped, the status recorded for a process is its own: exit code N
\* gives return_status N and return_signal 0, signal S gives 128 + S and S.
C11_JobWait ==
    /\ pc = "done" => \A i \in 1..Len(job) : job[i].return_status # -1
    /\ \A i \in 1..Len(job) : job[i].return_status # -1 => RecordedOwn(job[i])

\* a job of two exec'd programs has been waited for: the first was killed by
\* SIGINT, the last exited with 1
C11_Witness ==
    /\ pc = "done"
    /\ Len(job) = 2
    /\ job[1].execd /\ job[2].execd
    /\ job[1].return_status = 128 + SIGINT /\ job[1].return_signal = SIGINT
    /\ job[2].return_status = 1 /\ job[2].return_signal = 0

\* what the fds 0 and 1 of the i-th of n processes are to refer to
Wiring(i, n) ==
    <<IF i = 1 THEN ShellFds[STDIN_FILENO] ELSE <<"r", i - 1>>,
      IF i = n THEN ShellFds[STDOUT_FILENO] ELSE <<"w", i>>>>

\* C12: once a child of a pipeline of N processes is past its dup2/close
\* pairs, hence before it execs, its stdin is the shell's stdin for the
\* first process and else the read end of the pipe made one iteration
\* earlier, and its stdout is the shell's stdout for the last process and
\* else the write end of the pipe made in its own iteration; the children
\* are forked in the order of the pipeline, and no child holds an end of a
\* pipe made in a later iteration.  (The redirections of the process are
\* applied after that and may replace either fd.)
C12_PipelineWiring ==
    \A i \in 1..Len(job) :
        /\ job[i].execd => job[i].std # <<>>
        /\ job[i].std # <<>> => job[i].std = Wiring(i, Len(pipeline))
        /\ job[i].lex = pipeline[i]
        /\ \A m \in 1..(i - 1) : job[m].pid < job[i].pid
        /\ \A fd \in DOMAIN job[i].fds :
            job[i].fds[fd][1] \in {"r", "w"} => job[i].fds[fd][2] <= i

\* the three programs of a pipeline are running, the middle one between
\* the two pipes
C12_Witness ==
    /\ Len(job) = 3
    /\ \A i \in 1..3 : job[i].st = "exec"
    /\ job[2].std = <<<<"r", 1>>, <<"w", 2>>>>

\* C13: in an interactive shell every child that has exec'd is a member of
\* the process group named after the pid of the first child of its job,
\* whichever of its own setpgid and the parent's took effect first, and
\* once the parent is past its setpgid for the first child the job's
\* recorded pgid is that pid; in a shell that is not interactive no child
\* leaves the shell's group, the job records no pgid and the terminal's
\* foreground group stays as it was.
C13_ProcessGroups ==
    /\ sh_pgid # -1 =>
        /\ \A i \in 1..Len(job) : job[i].execd => job[i].pgrp = job[1].pid
        /\ Len(job) >= 1 /\ ~(pc = "parent" /\ Len(job) = 1) => jpgid = job[1].pid
    /\ sh_pgid = -1 =>
        /\ \A i \in 1..Len(job) : job[i].pgrp = ShellPgid /\ job[i].pgby = ""
        /\ jpgid = -1
        /\ tcpgrp = ShellPgid

\* both programs of an interactive pipeline are running; the first child
\* made the group itself, the second was put in it by the parent
C13_Witness ==
    /\ sh_pgid # -1
    /\ Len(job) = 2
    /\ job[1].st = "exec" /\ job[2].st = "exec"
    /\ job[1].pgby = "child" /\ job[2].pgby = "parent"
    /\ job[2].pgrp = job[1].pid

\* C14: in an interactive shell, every step with which rmsh_input returns
\* after a job of which at least one child was forked - also when a later
\* pipe or fork failed or the wait loop gave up - leaves the terminal with
\* the shell's group in the foreground and with the saved attributes.
C14_TerminalReclaim ==
    [][(/\ sh_pgid # -1
        /\ pc \notin Returned
        /\ pc' \in Returned
        /\ job' # <<>>)
       => (tcpgrp' = sh_pgid /\ tcattr' = "saved")]_vars

\* C15: a forked child either execs or, failing before that, writes a
\* diagnostic and exits with status 1, and what the parent records for a
\* child that failed is an exit with status 1.
C15_ChildFailure ==
    \A i \in 1..Len(job) :
        ~job[i].execd =>
            /\ Terminated(job[i]) =>
                job[i].st = "exited" /\ job[i].status = 1 /\ job[i].diag # ""
            /\ job[i].return_status # -1 =>
                job[i].return_status = 1 /\ job[i].return_signal = 0

\* what history_get(i) is to return after nadds adds, of which the j-th
\* (from 0) was of LineNo(j)
Expected(i) ==
    IF i < nadds /\ i < HIST_MAX THEN LineNo(nadds - 1 - i) ELSE NULL

\* C19: after k history_add calls, history_get(i) is the line added i adds
\* before the last one for every i below min(k, HIST_MAX), and is NULL for
\* every other i, those from HIST_MAX up included.
C19_HistoryRing ==
    \A i \in 0..(HIST_MAX + 2) :
        history_get(history_buf, history_cur, i) = Expected(i)

\* one add more than the ring holds: history_get(0) is the last line added
\* and history_get(HIST_MAX - 1) the second
C19_Witness ==
    /\ nadds = HIST_MAX + 1
    /\ history_get(history_buf, history_cur, 0) = LineNo(HIST_MAX)
    /\ history_get(history_buf, history_cur, HIST_MAX - 1) = LineNo(1)
    /\ history_get(history_buf, history_cur, HIST_MAX) = NULL

\* C16: in a session of prompt in which nothing but well-formed code points
\* that are no control characters were typed, and then ENTER, prompt
\* returns the bytes typed, in the order they were typed.
C16_EditorRoundTrip ==
    (prompt_ret.res = "line" /\ lastkey = "ENTER" /\ typed.only)
        => prompt_ret.text = typed.text

\* "a", "é" and "€" were typed, then ENTER, and the six bytes were returned
C16_Witness ==
    /\ prompt_ret.res = "line"
    /\ lastkey = "ENTER"
    /\ typed.only
    /\ typed.text = <<97, 195, 169, 226, 130, 172>>
    /\ prompt_ret.text = <<97, 195, 169, 226, 130, 172>>

\* the string of the current row, "" if it has none
RowString ==
    IF prompt_get(prmt, history_buf, history_cur) = NULL THEN <<>>
    ELSE prompt_get(prmt, history_buf, history_cur)

\* col is 0, the length of s, or the index of a byte of s that is no
\* continuation byte
OnBoundary(s, col) ==
    /\ col <= Len(s)
    /\ col = 0 \/ col = Len(s) \/ utf8_size(s[col + 1]) # 0

\* C17: while prompt reads keys, prmt_cur_col is at most the length of the
\* current row's string and on a code-point boundary of it.
C17_CursorInvariant == OnBoundary(RowString, prmt.prmt_cur_col)

\* "a" and "é" were typed and BCKWARD moved the cursor back over the two
\* bytes of "é"
C17_Witness ==
    /\ lastkey = "BCKWARD"
    /\ ~prmt.in_srch
    /\ RowString = <<97, 195, 169>>
    /\ prmt.prmt_cur_col = 1

\* new is h with one key's text inserted, or with up to four bytes deleted
EditedFrom(h, new) ==
    \/ \E i \in 0..Len(h) : \E x \in TextKeys : new = Insert(h, i, x)
    \/ \E i \in 0..Len(h) : \E k \in 1..4 :
          /\ i + k <= Len(h)
          /\ new = SubSeq(h, 1, i) \o SubSeq(h, i + k + 1, Len(h))

\* C18: no key changes the history ring; and a key that gives a row r > 0
\* a buffer of its own leaves in it the history line of that row, which
\* exists, with that key's one edit applied.
C18_CopyOnWrite ==
    [][/\ history_buf' = history_buf
       /\ history_cur' = history_cur
       /\ \A r \in DOMAIN prmt'.prmt_line \ DOMAIN prmt.prmt_line :
            r > 0 =>
              /\ history_get(history_buf, history_cur, r - 1) # NULL
              /\ EditedFrom(history_get(history_buf, history_cur, r - 1),
                            prmt'.prmt_line[r])]_vars

\* after UP, a BACKSPACE on the history line "ba" left "b" in the buffer
\* of row 1 and "ba" in the history
C18_Witness ==
    /\ lastkey = "BACKSPACE"
    /\ prmt.prmt_cur_row = 1
    /\ 1 \in DOMAIN prmt.prmt_line
    /\ prmt.prmt_line[1] = <<98>>
    /\ history_get(history_buf, history_cur, 0) = <<98, 97>>

\* the rows whose string contains q
Matches(q) ==
    {r \in 0..HIST_MAX :
        /\ prompt_get_at(prmt, history_buf, history_cur, r) # NULL
        /\ Occurrences(prompt_get_at(prmt, history_buf, history_cur, r),
                       q) # {}}

\* the rows above the current one whose string contains q
Higher(q) == {r \in Matches(q) : r > prmt.prmt_cur_row}

RowText(P, r) ==
    IF prompt_get_at(P, history_buf, history_cur, r) = NULL THEN <<>>
    ELSE prompt_get_at(P, history_buf, history_cur, r)

\* C21: with search mode off, a DOWN right after an UP that moved from row
\* r to r+1 is back on row r, on the text the row had, with the cursor at
\* its end; an UP right after a DOWN that moved from r to r-1 is back on
\* row r; UP on the oldest row and DOWN on row 0 leave row and cursor as
\* they are.
C21_UpDownInverse ==
    [][(nkeys' # nkeys /\ ~prmt.in_srch) =>
        /\ (/\ lastkey = "UP" /\ prmt.prmt_cur_row = prevrow + 1
            /\ lastkey' = "DN")
           => /\ prmt'.prmt_cur_row = prevrow
              /\ RowText(prmt', prevrow) = RowText(prmt, prevrow)
              /\ prmt'.prmt_cur_col = Len(RowText(prmt, prevrow))
        /\ (/\ lastkey = "DN" /\ prmt.prmt_cur_row = prevrow - 1
            /\ lastkey' = "UP")
           => prmt'.prmt_cur_row = prevrow
        /\ (/\ lastkey' = "UP"
            /\ history_get(history_buf, history_cur,
                           prmt.prmt_cur_row) = NULL)
           => /\ prmt'.prmt_cur_row = prmt.prmt_cur_row
              /\ prmt'.prmt_cur_col = prmt.prmt_cur_col
        /\ (lastkey' = "DN" /\ prmt.prmt_cur_row = 0)
           => /\ prmt'.prmt_cur_row = prmt.prmt_cur_row
              /\ prmt'.prmt_cur_col = prmt.prmt_cur_col]_vars

\* "a" was typed on row 0, UP moved to the history line of row 1 and DOWN
\* came back to "a" with the cursor after it
C21_Witness ==
    /\ lastkey = "DN"
    /\ nkeys = 3
    /\ prevrow = 1
    /\ ~prmt.in_srch
    /\ prmt.prmt_cur_row = 0
    /\ RowText(prmt, 0) = <<97>>
    /\ prmt.prmt_cur_col = 1
    /\ prmt.prmt_line = (0 :> <<97>>)

\* the text of the current row: the row's own buffer if it has one, else
\* the history line of a row above 0, else ""
CurrentText ==
    IF prmt.prmt_cur_row \in DOMAIN prmt.prmt_line
    THEN prmt.prmt_line[prmt.prmt_cur_row]
    ELSE IF /\ prmt.prmt_cur_row > 0
            /\ history_get(history_buf, history_cur,
                           prmt.prmt_cur_row - 1) # NULL
    THEN history_get(history_buf, history_cur, prmt.prmt_cur_row - 1)
    ELSE <<>>

\* C22: ENTER makes prompt return a string, and the string is the text of
\* the current row, in search mode too.
C22_EnterReturnsRow ==
    lastkey = "ENTER" =>
        /\ prompt_ret.res = "line"
        /\ prompt_ret.text = CurrentText

\* in search mode with the query "a", on the history line "ba" of a row
\* above 0, ENTER returned "ba"
C22_Witness ==
    /\ lastkey = "ENTER"
    /\ prmt.in_srch
    /\ prmt.srch_query = <<97>>
    /\ prmt.prmt_cur_row > 0
    /\ prompt_ret = [res |-> "line", text |-> <<98, 97>>]

\* the byte sequences of the keys and the event each is to decode to
KeyTable ==
    {<<<<1>>, "HOME">>, <<<<27, 91, 49, 126>>, "HOME">>,
     <<<<27, 91, 55, 126>>, "HOME">>, <<<<27, 91, 72>>, "HOME">>,
     <<<<27, 79, 72>>, "HOME">>,
     <<<<5>>, "END">>, <<<<27, 91, 52, 126>>, "END">>,
     <<<<27, 91, 56, 126>>, "END">>, <<<<27, 91, 70>>, "END">>,
     <<<<27, 79, 70>>, "END">>,
     <<<<2>>, "BCKWARD">>, <<<<27, 91, 68>>, "BCKWARD">>,
     <<<<6>>, "FORWARD">>, <<<<27, 91, 67>>, "FORWARD">>,
     <<<<27, 91, 65>>, "UP">>, <<<<27, 91, 66>>, "DN">>,
     <<<<27, 91, 53, 126>>, "PGUP">>, <<<<27, 91, 54, 126>>, "PGDN">>,
     <<<<27, 91, 51, 126>>, "DEL">>,
     <<<<3>>, "LINEKILL">>, <<<<4>>, "EXIT">>, <<<<12>>, "CLEAR">>,
     <<<<18>>, "SEARCH">>, <<<<10>>, "ENTER">>, <<<<9>>, "TAB">>,
     <<<<127>>, "BACKSPACE">>}

\* s is a proper prefix of t
ProperPrefix(s, t) == Len(s) < Len(t) /\ SubSeq(t, 1, Len(s)) = s

\* s is a proper prefix of the sequence of some key
KeyPrefix(s) == \E k \in KeyTable : ProperPrefix(s, k[1])

\* ESC [ and a digit that no key has: whatever follows is invalid
DeadDigit(s) ==
    /\ Len(s) = 3
    /\ s[1] = 27 /\ s[2] = 91
    /\ s[3] \in {48 + d : d \in {0, 2, 9}}

\* C23: of the bytes fed to a reset decoder, every proper prefix of a
\* key's sequence is incomplete and the sequence's last byte emits the
\* key's event; any other control character as the first byte is invalid,
\* and so is every escape sequence that is no key's, on the byte with
\* which it stops being the prefix of one or, after ESC [ and a digit, on
\* the byte after the digit.
C23_DecoderTable ==
    fed # <<>> =>
        /\ \A k \in KeyTable :
             fed = k[1] =>
                dret = 1 /\ tch.tch_type = "CTRL" /\ tch.value = k[2]
        /\ KeyPrefix(fed) => dret = 0
        /\ (/\ fed[1] \in (0..31) \ {27}
            /\ \A k \in KeyTable : fed # k[1])
           => dret = -1
        /\ (/\ fed[1] = 27
            /\ ~KeyPrefix(fed)
            /\ \A k \in KeyTable : fed # k[1])
           => IF DeadDigit(fed) THEN dret = 0 ELSE dret = -1

\* ESC [ 3 ~ was fed and its last byte emitted DEL
C23_Witness ==
    /\ fed = <<27, 91, 51, 126>>
    /\ dret = 1
    /\ tch.value = "DEL"

\* C23, as stated: every escape sequence that is neither a key's nor the
\* proper prefix of one is invalid.
C23_EveryOtherEscapeInvalid ==
    (/\ fed # <<>>
     /\ fed[1] = 27
     /\ ~KeyPrefix(fed)
     /\ \A k \in KeyTable : fed # k[1])
    => dret = -1

\* the size of the code point that byte c leads
LeadingLength(c) ==
    IF c < 128 THEN 1
    ELSE IF c \in 192..223 THEN 2
    ELSE IF c \in 224..239 THEN 3
    ELSE 4

\* C24: while the decoder accumulates text, the size it expects is in 1..4
\* and it holds at most that many bytes, storing none past its buffer; a
\* first byte that is a continuation byte or leads nothing is invalid; and
\* text is emitted when exactly as many bytes were fed as the first byte
\* says.
C24_TextBound ==
    fed # <<>> =>
        /\ (tch.tch_type = "TEXT" /\ dret # -1) =>
              /\ tch.sz \in 1..4
              /\ Len(tch.data) <= tch.sz
        /\ dret # -2
        /\ (Len(fed) = 1 /\ fed[1] \in (128..191) \cup (248..255))
              => dret = -1
        /\ (tch.tch_type = "TEXT" /\ dret = 1)
              => Len(fed) = LeadingLength(fed[1])

\* C25: a key that the decoder refuses, or that is text broken off in the
\* middle of a code point, changes nothing of the editor and does not
\* make prompt return.
C25_ProtocolErrorsDropped ==
    [][(nkeys' # nkeys /\ lastkey' \in {"ignored", "BADTEXT"})
        => (prmt' = prmt /\ prompt_ret' = NoRet)]_vars

\* C26: when reading a key fails, prompt returns PRMT_ABRT, and
\* interactive does not call prompt again after that.
C26_ReadFailureAborts ==
    [][/\ (nkeys' # nkeys /\ lastkey' = "readfail")
          => prompt_ret'.res = "ABRT"
       /\ lastkey = "readfail" => lastkey' # "again"]_vars

\* C27: in search mode prmt_srch_query_sz is the byte length of the query
\* typed, prmt_srch_line_sz is the byte length of the overlay - the fixed
\* text, the query and the text of the row landed on - and is less than
\* the size the overlay was allocated with.
C27_OverlaySizes ==
    (prmt.in_srch /\ prompt_ret.res # "crashed") =>
        /\ Len(prmt.srch_query) = Len(query)
        /\ prmt.prmt_srch_line_sz =
              PRMT_SRCH_TLEN + Len(query) + Len(CurrentText)
        /\ prmt.prmt_srch_line_sz <= prmt.srch_alloc - 1

\* the first row that contains q and the first place of q in it, as a
\* search from row 0 finds them
FirstMatch(q) ==
    LET r == Least(Matches(q))
    IN  <<r, Least(Occurrences(RowText(prmt, r), q))>>

\* C28: a BACKSPACE in search mode on a query that is not empty takes the
\* last code point off the query and searches again from row 0: if some
\* row contains the shorter query, and the shorter query is not empty,
\* row and cursor are then its first match.
C28_BackspaceSearchesAgain ==
    [][(/\ nkeys' # nkeys
        /\ lastkey' = "BACKSPACE"
        /\ prmt.in_srch
        /\ query # <<>>
        /\ prompt_ret'.res = "none")
       => /\ prmt'.in_srch
          /\ query' = SubSeq(query, 1, Len(query) - utf8_rsize(query, Len(query)))
          /\ (query' # <<>> /\ Matches(query') # {})
             => <<prmt'.prmt_cur_row, prmt'.prmt_cur_col>>
                   = FirstMatch(query')]_vars

\* C29: in search mode each of BCKWARD, FORWARD, HOME, END, UP, DOWN and
\* TAB leaves the editor out of search mode, with no overlay and no
\* query, in every state - also UP on the oldest row and DOWN on row 0.
C29_MotionLeavesSearch ==
    [][(/\ nkeys' # nkeys
        /\ prmt.in_srch
        /\ lastkey' \in {"BCKWARD", "FORWARD", "HOME", "END",
                         "UP", "DN", "TAB"}
        /\ prompt_ret'.res = "none")
       => /\ ~prmt'.in_srch
          /\ prmt'.srch_query = <<>>
          /\ prmt'.prmt_srch_line_sz = 0]_vars

\* the environment the command line asks for: the shell's, with the
\* command's env assignments put into it
Assigned == PutAll(environ, child_lex.envp, 1)

\* C30: the env assignments are in the environment before argv[0] is
\* resolved: a command without `/' whose line assigns PATH is resolved in
\* the directories of that assignment.
C30_AssignedPathResolves ==
    (/\ child_pc \in {"putenv", "execv", "execd", "out"}
     /\ strchr(child_lex.argv[1], "/") = 0
     /\ \E k \in 1..Len(child_lex.envp) :
          /\ Len(child_lex.envp[k]) > Len(PATH)
          /\ SubSeq(child_lex.envp[k], 1, Len(PATH) + 1) = PATH \o <<"=">>)
    => exe_path = resolve_command_path(child_lex.argv[1], Assigned, files)

\* the place of call x in the calls of child c, 0 if it was not made
Place(c, x) ==
    IF \E k \in 1..Len(c.calls) : c.calls[k] = x
    THEN CHOOSE k \in 1..Len(c.calls) : c.calls[k] = x
    ELSE 0

\* the children of this job and of the earlier ones
Children == {job[i] : i \in 1..Len(job)} \cup {orphans[k] : k \in 1..Len(orphans)}

\* C31: a child of an interactive job that has exec'd had joined the job's
\* group, and given the terminal to it if it did so at all, before the
\* default handling of the six job control signals was restored, and all
\* that before execv; only a child whose input is the shell's stdin calls
\* tcsetpgrp.
C31_ChildSetupOrder ==
    \A c \in Children :
        /\ (c.execd /\ c.pgid # -1) =>
              /\ c.pgrp = ChildPgid(c.pgid, c.pid)
              /\ Place(c, "setpgid") = 1
              /\ \A k \in 1..Len(JobControlSignals) :
                    /\ Place(c, "setpgid") < Place(c, JobControlSignals[k])
                    /\ Place(c, "tcsetpgrp") < Place(c, JobControlSignals[k])
                    /\ Place(c, JobControlSignals[k]) < Place(c, "execv")
              /\ Place(c, "execv") = Len(c.calls)
        /\ Place(c, "tcsetpgrp") # 0 =>
              /\ c.infile = STDIN_FILENO
              /\ Place(c, "setpgid") < Place(c, "tcsetpgrp")

\* a pipeline of two in the interactive shell: both children have exec'd,
\* the first gave the terminal to the group, the second, whose input is the
\* pipe, did not
C31_Witness ==
    /\ Len(job) = 2
    /\ job[1].execd /\ job[2].execd
    /\ job[1].calls = <<"setpgid", "tcsetpgrp">> \o JobControlSignals \o <<"execv">>
    /\ job[2].calls = <<"setpgid">> \o JobControlSignals \o <<"execv">>
    /\ job[2].infile # STDIN_FILENO

\* child c is past the redirection loop of rmsh_child
Redirected(c) ==
    /\ c.st # "forked"
    /\ c.diag \in {"", "command not found", "exec"}

\* the fds the redirections of c name as targets
Targets(c) == {c.lex.redirs[k].redir_fd : k \in 1..Len(c.lex.redirs)}

\* what fd refers to when the pipe ends are installed and no redirection
\* has been applied
Unredirected(c, fd) ==
    IF fd = STDIN_FILENO THEN c.std[1]
    ELSE IF fd = STDOUT_FILENO THEN c.std[2]
    ELSE IF fd \in DOMAIN c.fds /\ fd \notin Targets(c) THEN c.fds[fd]
    ELSE IF fd \in DOMAIN ShellFds THEN ShellFds[fd]
    ELSE <<"closed">>

\* what fd refers to before the k-th redirection of c, going by the text:
\* the last redirection before the k-th that names fd as its target bound
\* it, to its file or to what its source fd referred to then
RECURSIVE Bound(_, _, _)
Bound(c, k, fd) ==
    LET before == {j \in 1..(k - 1) : c.lex.redirs[j].redir_fd = fd}
    IN  IF before = {} THEN Unredirected(c, fd)
        ELSE LET j == CHOOSE x \in before : \A y \in before : y <= x
                 r == c.lex.redirs[j]
             IN  IF r.type \in LEXRT_PATH THEN <<"file", r.path, r.type>>
                 ELSE IF r.fd = fd THEN Bound(c, j, fd)
                 ELSE Bound(c, j, r.fd)

\* the redirections of c that are skipped: the source fd is the target
Skipped(r) == r.type \in LEXRT_FD /\ r.fd = r.redir_fd

\* C32: in a child that is past its redirections every fd named as a
\* target refers to what the last redirection naming it bound it to, each
\* redirection having seen the fds as the ones before it left them; a
\* standard fd that no redirection names is still the pipe end (or the
\* shell's fd) installed before; the redirections were duplicated in the
\* order of the text, those whose source is the target being skipped; and
\* no fd opened for a path is left open beside the target.
C32_RedirectionOrder ==
    \A i \in 1..Len(job) :
        LET c == job[i]
            n == Len(c.lex.redirs)
            done == SelectSeq(c.lex.redirs, LAMBDA r : ~Skipped(r))
        IN  Redirected(c) =>
              /\ c.std = Wiring(i, Len(pipeline))
              /\ \A t \in Targets(c) :
                    t \in DOMAIN c.fds /\ c.fds[t] = Bound(c, n + 1, t)
              /\ \A fd \in {STDIN_FILENO, STDOUT_FILENO} \ Targets(c) :
                    c.fds[fd] = c.std[fd + 1]
              /\ Len(c.dups) = Len(done)
              /\ \A d \in 1..Len(done) : c.dups[d][2] = done[d].redir_fd
              /\ \A x \in DOMAIN c.fds :
                    c.fds[x][1] = "file" => x \in Targets(c)

\* `>a>a': two redirections of fd 1, the second to the file opened last;
\* the child is past them and fd 1 is the file of the second
C32_Witness ==
    /\ Len(job) = 1
    /\ Redirected(job[1])
    /\ Len(job[1].lex.redirs) = 2
    /\ job[1].lex.redirs[1].redir_fd = 1
    /\ job[1].lex.redirs[2].redir_fd = 1
    /\ job[1].lex.redirs[2].type = LEXRT_PATH_OTRUNC
    /\ job[1].fds[1] = <<"file", job[1].lex.redirs[2].path, LEXRT_PATH_OTRUNC>>
    /\ Len(job[1].dups) = 2

\* `>a|a': the first child's stdout was the pipe and the redirection put
\* the file in its place
C32_PipeOverridden ==
    /\ Len(job) = 2
    /\ Redirected(job[1])
    /\ job[1].std[2] = <<"w", 1>>
    /\ job[1].fds[1][1] = "file"

\* C33: when the parsing of an input has ended, with a pipeline or with an
\* error, the line number is the starting line plus the number of newline
\* bytes the lexer has passed, each newline counted once: it is no less
\* than one plus the newlines before the cursor and no more than one plus
\* the newlines up to and with the byte at the cursor.
C33_LineCounter ==
    pc \notin {"proc", "pipe"} =>
        /\ line >= 1 + CountNL(input, 1, cursor - 1)
        /\ line <= 1 + CountNL(input, 1,
                               IF cursor > Len(input) THEN Len(input) ELSE cursor)

\* C34: the push-back list of the lexer never holds more than one token.
C34_PushBackDepth == Len(tok_head) <= 1

\* C34 amended: the push-back list holds at most two tokens, and two only
\* as a word on top of the metacharacter token that followed it (both were
\* pushed back for the word to be parsed again); the token on top of
\* the list is the token lex_pop_token returns next, the cursor staying
\* where it is.
C34_PushBackStack ==
    /\ Len(tok_head) <= 2
    /\ Len(tok_head) = 2 =>
          /\ tok_head[1].flags = {}
          /\ LEXF_META \in tok_head[2].flags
          /\ tok_head[1].to = tok_head[2].from
    /\ tok_head # <<>> =>
          /\ Pop.ret = 0
          /\ Pop.tok = Head(tok_head)
          /\ Pop.tok_head = Tail(tok_head)
          /\ Pop.cursor = cursor

\* `+>': the word `+' is on top of the operator `>' in the push-back list
C34_Witness ==
    /\ Len(tok_head) = 2
    /\ tok_head[1].s = <<"+">>
    /\ tok_head[2].s = <<">">>
    /\ pc = "proc"

\* the pipe ends a descriptor table holds
PipeEnds(fds) == {fds[x] : x \in {y \in DOMAIN fds : fds[y][1] \in {"r", "w"}}}

C36_ChildFds ==
    \A i \in 1..Len(job) :
        job[i].execd =>
            /\ <<"r", i>> \notin PipeEnds(job[i].fds)
            /\ \A x \in DOMAIN job[i].fds :
                  job[i].fds[x][1] \in {"r", "w"} =>
                      x \in {STDIN_FILENO, STDOUT_FILENO} \cup Targets(job[i])

\* C37: when rmsh_input has returned, with the job done or after the launch
\* or the wait failed, every child forked for the input has been reaped;
\* no child of an earlier input is left for a later wait to return, and no
\* wait ends with `unknown pid'.
C37_AllReaped ==
    /\ pc \in {"done", "failed", "aborted"} => Unreaped(job) = <<>>
    /\ orphans = <<>>
    /\ pc # "aborted"

\* C38: when the accepted line is a history entry that was not edited, the
\* newest entry after history_add holds that line's text, also when the entry
\* is the oldest one of a full ring
C38_AddKeepsText ==
    /\ prompt_ret.res # "crashed"
    /\ prompt_ret.res = "line" =>
          history_get(history_buf, history_cur, 0) = prompt_ret.text

\* C39: every token lex_pop_token returned with a string has a NUL stored
\* after its text, so what strcmp reads at an operator token is the operator
C39_TokensTerminated ==
    \A i \in 1..Len(toklog) :
        ~toklog[i].null =>
            /\ toklog[i].term
            /\ CStrings(toklog[i]) = {toklog[i].s}

\* what is left to parse: the bytes from the cursor on, weighed over the
\* pushed-back tokens, and lex_pop_proc ahead of lex_pop_pipeline
ParseMeasure ==
    2 * (3 * (Len(input) + 1 - cursor) + Len(tok_head))
        + (IF pc = "proc" THEN 1 ELSE 0)

\* a step of the parser: it goes on with less left to parse, or it ends the
\* parse with a pipeline or with a syntax error that has a message
ParserStep ==
    pc \in {"proc", "pipe"} =>
        /\ pc' \in {"proc", "pipe", "launch", "error"}
        /\ pc' \in {"proc", "pipe"} => ParseMeasure' < ParseMeasure
        /\ pc' = "launch" => pipeline' # <<>>
        /\ pc' = "error" => error' # ""

\* C40: for every input lex_pop_pipeline terminates and returns a pipeline
\* or a syntax error with a message; none of the panics is reached
C40_NoPanic == [][ParserStep]_vars

\* a pipeline was returned for an input in which a word ran into an operator
\* and both tokens were pushed back
C40_Witness ==
    /\ pc = "launch"
    /\ Len(pipeline) >= 2
    /\ pipeline[1].argv # <<>>
    /\ pipeline[1].redirs = <<>>
    /\ LEXF_PREMETA \in toklog[1].flags
====
